---------------------------- MODULE Spec2Model ----------------------------
(***************************************************************************)
(* Tool registry, argument coercion and dispatch of mcp-atlassian:         *)
(*   tools/schema.py      ToolDefinition, Toolbox                           *)
(*   tools/confluence.py  CONFLUENCE_TOOLS, CONFLUENCE_TOOLBOX              *)
(*   tools/jira.py        JIRA_TOOLS, JIRA_TOOLBOX                          *)
(*   server.py            list_tools, call_tool, get_read_only_response     *)
(*   exceptions.py        the not-configured and invalid-JSON errors        *)
(*                                                                         *)
(* Python values are tagged records of one shape; Python strings that the  *)
(* code inspects character by character (int(), float(), strip(), lower()) *)
(* are sequences of one-character strings.  A finite float is kept in      *)
(* tenths, so 30.0 is FloatV(300) and 2.5 is FloatV(25).                    *)
(***************************************************************************)
EXTENDS Integers, Sequences, FiniteSets, TLC

(***************************************************************************)
(* Bounds of the model.                                                    *)
(***************************************************************************)
\* the integers -MaxNeg .. MaxInt are supplied as arguments (and 500 and 999)
MaxInt == 52
\* the most negative integer supplied is -MaxNeg
MaxNeg == 5
\* the number of requests that may be in flight together
MaxTasks == 2

(***************************************************************************)
(* Python values.                                                          *)
(***************************************************************************)
NoneV == [t |-> "none", n |-> 0, s |-> <<>>, l |-> <<>>]
BoolV(b) == [t |-> "bool", n |-> IF b THEN 1 ELSE 0, s |-> <<>>, l |-> <<>>]
IntV(i) == [t |-> "int", n |-> i, s |-> <<>>, l |-> <<>>]
FloatV(tenths) == [t |-> "float", n |-> tenths, s |-> <<>>, l |-> <<>>]
NanV == [t |-> "nan", n |-> 0, s |-> <<>>, l |-> <<>>]
InfV(sign) == [t |-> "inf", n |-> sign, s |-> <<>>, l |-> <<>>]
StrV(chars) == [t |-> "str", n |-> 0, s |-> chars, l |-> <<>>]
ListV(items) == [t |-> "list", n |-> 0, s |-> <<>>, l |-> items]

\* isinstance(value, int | float): bool is a subclass of int; nan and inf are floats
IsIntOrFloat(v) == v.t \in {"bool", "int", "float", "nan", "inf"}

\* the value of a bool, int or finite float, in tenths
Tenths(v) == IF v.t = "float" THEN v.n ELSE 10 * v.n

\* Python's value < bound for an int bound: every comparison with nan is False
PyLess(v, bound) ==
    CASE v.t = "nan" -> FALSE
      [] v.t = "inf" -> v.n < 0
      [] OTHER -> Tenths(v) < 10 * bound

\* Python's value > bound for an int bound
PyGreater(v, bound) ==
    CASE v.t = "nan" -> FALSE
      [] v.t = "inf" -> v.n > 0
      [] OTHER -> Tenths(v) > 10 * bound

\* bool(value)
PyTruthy(v) ==
    CASE v.t = "none" -> FALSE
      [] v.t \in {"bool", "int", "float"} -> v.n # 0
      [] v.t \in {"nan", "inf"} -> TRUE
      [] v.t = "str" -> Len(v.s) > 0
      [] v.t = "list" -> Len(v.l) > 0
      [] OTHER -> TRUE

(***************************************************************************)
(* Strings.                                                                *)
(***************************************************************************)
Digits == <<"0", "1", "2", "3", "4", "5", "6", "7", "8", "9">>
UpperChars == <<"A", "B", "C", "D", "E", "F", "G", "H", "I", "J", "K", "L", "M",
                "N", "O", "P", "Q", "R", "S", "T", "U", "V", "W", "X", "Y", "Z">>
LowerChars == <<"a", "b", "c", "d", "e", "f", "g", "h", "i", "j", "k", "l", "m",
                "n", "o", "p", "q", "r", "s", "t", "u", "v", "w", "x", "y", "z">>

IsDigit(c) == \E i \in 1..10 : Digits[i] = c
DigitVal(c) == (CHOOSE i \in 1..10 : Digits[i] = c) - 1
IsSpace(c) == c \in {" ", "\t", "\n"}

\* the least element of a non-empty set of integers
Least(S) == CHOOSE x \in S : \A y \in S : x <= y

\* str.lower(), one character
LowerChar(c) ==
    IF \E i \in 1..26 : UpperChars[i] = c
    THEN LowerChars[CHOOSE i \in 1..26 : UpperChars[i] = c]
    ELSE c

\* str.lower()
PyLower(s) == [i \in 1..Len(s) |-> LowerChar(s[i])]

\* str.strip()
PyStrip(s) ==
    IF \A i \in 1..Len(s) : IsSpace(s[i]) THEN <<>>
    ELSE LET first == CHOOSE i \in 1..Len(s) :
                         ~IsSpace(s[i]) /\ \A j \in 1..(i - 1) : IsSpace(s[j])
             last == CHOOSE i \in 1..Len(s) :
                         ~IsSpace(s[i]) /\ \A j \in (i + 1)..Len(s) : IsSpace(s[j])
         IN  SubSeq(s, first, last)

\* str.isdigit()
PyIsDigit(s) == Len(s) > 0 /\ \A i \in 1..Len(s) : IsDigit(s[i])

\* the number written by a run of decimal digits
RECURSIVE DigitsVal(_)
DigitsVal(s) ==
    IF Len(s) = 0 THEN 0
    ELSE 10 * DigitsVal(SubSeq(s, 1, Len(s) - 1)) + DigitVal(s[Len(s)])

\* a literal without its sign, and the sign
Unsigned(s) == IF Len(s) > 0 /\ s[1] \in {"+", "-"} THEN Tail(s) ELSE s
SignOf(s) == IF Len(s) > 0 /\ s[1] = "-" THEN -1 ELSE 1

\* a stripped int literal: an optional sign and decimal digits.
\* ok = FALSE stands for ValueError.
IntLiteral(stripped) ==
    IF PyIsDigit(Unsigned(stripped))
    THEN [ok |-> TRUE, v |-> IntV(SignOf(stripped) * DigitsVal(Unsigned(stripped)))]
    ELSE [ok |-> FALSE, v |-> NoneV]

\* int(str): surrounding whitespace is ignored
PyIntOfStr(s) == IntLiteral(PyStrip(s))

\* digits with at most one point, cut at the point (at most one fractional
\* digit: a finite float is kept in tenths)
DecimalLiteral(sign, whole, frac) ==
    IF /\ Len(whole) + Len(frac) > 0
       /\ Len(frac) <= 1
       /\ \A i \in 1..Len(whole) : IsDigit(whole[i])
       /\ \A i \in 1..Len(frac) : IsDigit(frac[i])
    THEN [ok |-> TRUE, v |-> FloatV(sign * (10 * DigitsVal(whole) + DigitsVal(frac)))]
    ELSE [ok |-> FALSE, v |-> NoneV]

\* a stripped, lower-cased float literal without its sign: nan, inf,
\* infinity, or digits with an optional point.  Literals with an exponent
\* or more than one fractional digit are not supplied by this model.
FloatLiteral(sign, body) ==
    CASE body = <<"n", "a", "n">> -> [ok |-> TRUE, v |-> NanV]
      [] body \in {<<"i", "n", "f">>, <<"i", "n", "f", "i", "n", "i", "t", "y">>} ->
             [ok |-> TRUE, v |-> InfV(sign)]
      [] \E i \in 1..Len(body) : body[i] = "." ->
             DecimalLiteral(sign,
                 SubSeq(body, 1, Least({i \in 1..Len(body) : body[i] = "."}) - 1),
                 SubSeq(body, Least({i \in 1..Len(body) : body[i] = "."}) + 1, Len(body)))
      [] OTHER -> DecimalLiteral(sign, body, <<>>)

\* float(str): surrounding whitespace is ignored, the case of letters too
PyFloatOfStr(s) == FloatLiteral(SignOf(PyStrip(s)), PyLower(Unsigned(PyStrip(s))))


(***************************************************************************)
(* Tool definitions.  A property descriptor keeps the keys of the schema   *)
(* that the code reads: type, default, minimum, maximum (descriptions are  *)
(* left out).  hasDefault tells whether the key "default" is present: a    *)
(* default of None is a present default.                                   *)
(***************************************************************************)
Prop(name, type) ==
    [name |-> name, type |-> type, hasDefault |-> FALSE, default |-> NoneV,
     hasMin |-> FALSE, minimum |-> 0, hasMax |-> FALSE, maximum |-> 0]
PropD(name, type, default) ==
    [name |-> name, type |-> type, hasDefault |-> TRUE, default |-> default,
     hasMin |-> FALSE, minimum |-> 0, hasMax |-> FALSE, maximum |-> 0]
PropMin(name, type, default, minimum) ==
    [name |-> name, type |-> type, hasDefault |-> TRUE, default |-> default,
     hasMin |-> TRUE, minimum |-> minimum, hasMax |-> FALSE, maximum |-> 0]
PropMinMax(name, type, default, minimum, maximum) ==
    [name |-> name, type |-> type, hasDefault |-> TRUE, default |-> default,
     hasMin |-> TRUE, minimum |-> minimum, hasMax |-> TRUE, maximum |-> maximum]

\* a descriptor with a maximum and no minimum
PropMax(name, type, default, maximum) ==
    [name |-> name, type |-> type, hasDefault |-> TRUE, default |-> default,
     hasMin |-> FALSE, minimum |-> 0, hasMax |-> TRUE, maximum |-> maximum]

ToolDefinition(name, properties, required, is_write_operation) ==
    [name |-> name, properties |-> properties, required |-> required,
     is_write_operation |-> is_write_operation]

\* string defaults the code never looks into are kept as one chunk
EssentialFields ==
    StrV(<<"summary,description,status,assignee,reporter,labels,priority,created,updated,issuetype">>)
AllFields == StrV(<<"*all">>)
VersionExpand == StrV(<<"v", "e", "r", "s", "i", "o", "n">>)
EmptyStr == StrV(<<>>)
EmptyJSONObject == StrV(<<"{", "}">>)

\* "limit": number, default d, minimum 1, maximum 50
LimitProp(d) == PropMinMax("limit", "number", IntV(d), 1, 50)

CONFLUENCE_TOOLS == <<
    ToolDefinition("confluence_search",
        <<Prop("query", "string"), LimitProp(10), Prop("spaces_filter", "string")>>,
        <<"query">>, FALSE),
    ToolDefinition("confluence_get_page",
        <<Prop("page_id", "string"),
          PropD("include_metadata", "boolean", BoolV(TRUE)),
          PropD("convert_to_markdown", "boolean", BoolV(TRUE))>>,
        <<"page_id">>, FALSE),
    ToolDefinition("confluence_get_page_children",
        <<Prop("parent_id", "string"),
          PropD("expand", "string", VersionExpand),
          LimitProp(25),
          PropD("include_content", "boolean", BoolV(FALSE))>>,
        <<"parent_id">>, FALSE),
    ToolDefinition("confluence_get_page_ancestors",
        <<Prop("page_id", "string")>>, <<"page_id">>, FALSE),
    ToolDefinition("confluence_get_comments",
        <<Prop("page_id", "string")>>, <<"page_id">>, FALSE),
    ToolDefinition("confluence_create_page",
        <<Prop("space_key", "string"), Prop("title", "string"),
          Prop("content", "string"), Prop("parent_id", "string")>>,
        <<"space_key", "title", "content">>, TRUE),
    ToolDefinition("confluence_update_page",
        <<Prop("page_id", "string"), Prop("title", "string"),
          Prop("content", "string"),
          PropD("is_minor_edit", "boolean", BoolV(FALSE)),
          PropD("version_comment", "string", EmptyStr)>>,
        <<"page_id", "title", "content">>, TRUE),
    ToolDefinition("confluence_delete_page",
        <<Prop("page_id", "string")>>, <<"page_id">>, TRUE),
    ToolDefinition("confluence_attach_content",
        <<Prop("content", "string"), Prop("name", "string"),
          Prop("page_id", "string")>>,
        <<"content", "name", "page_id">>, TRUE)
>>

JIRA_TOOLS == <<
    ToolDefinition("jira_get_issue",
        <<Prop("issue_key", "string"),
          PropD("fields", "string", EssentialFields),
          PropD("expand", "string", NoneV),
          PropMinMax("comment_limit", "integer", IntV(10), 0, 100),
          PropD("properties", "string", NoneV),
          PropD("update_history", "boolean", BoolV(TRUE))>>,
        <<"issue_key">>, FALSE),
    ToolDefinition("jira_search",
        <<Prop("jql", "string"),
          PropD("fields", "string", EssentialFields),
          LimitProp(10),
          PropMin("startAt", "number", IntV(0), 0),
          Prop("projects_filter", "string")>>,
        <<"jql">>, FALSE),
    ToolDefinition("jira_get_project_issues",
        <<Prop("project_key", "string"), LimitProp(10),
          PropMin("startAt", "number", IntV(0), 0)>>,
        <<"project_key">>, FALSE),
    ToolDefinition("jira_get_epic_issues",
        <<Prop("epic_key", "string"), LimitProp(10),
          PropMin("startAt", "number", IntV(0), 0)>>,
        <<"epic_key">>, FALSE),
    ToolDefinition("jira_get_transitions",
        <<Prop("issue_key", "string")>>, <<"issue_key">>, FALSE),
    ToolDefinition("jira_get_worklog",
        <<Prop("issue_key", "string")>>, <<"issue_key">>, FALSE),
    ToolDefinition("jira_download_attachments",
        <<Prop("issue_key", "string"), Prop("target_dir", "string")>>,
        <<"issue_key", "target_dir">>, FALSE),
    ToolDefinition("jira_get_agile_boards",
        <<Prop("board_name", "string"), Prop("project_key", "string"),
          Prop("board_type", "string"),
          PropD("startAt", "number", IntV(0)), LimitProp(10)>>,
        <<>>, FALSE),
    ToolDefinition("jira_get_board_issues",
        <<Prop("board_id", "string"), Prop("jql", "string"),
          PropD("fields", "string", AllFields),
          PropD("startAt", "number", IntV(0)), LimitProp(10),
          PropD("expand", "string", VersionExpand)>>,
        <<"board_id", "jql">>, FALSE),
    ToolDefinition("jira_get_sprints_from_board",
        <<Prop("board_id", "string"), Prop("state", "string"),
          PropD("startAt", "number", IntV(0)), LimitProp(10)>>,
        <<>>, FALSE),
    ToolDefinition("jira_get_sprint_issues",
        <<Prop("sprint_id", "string"),
          PropD("fields", "string", AllFields),
          PropD("startAt", "number", IntV(0)), LimitProp(10)>>,
        <<"sprint_id">>, FALSE),
    ToolDefinition("jira_create_issue",
        <<Prop("project_key", "string"), Prop("summary", "string"),
          Prop("issue_type", "string"),
          PropD("assignee", "string", NoneV),
          PropD("description", "string", EmptyStr),
          PropD("components", "string", EmptyStr),
          PropD("additional_fields", "string", EmptyJSONObject)>>,
        <<"project_key", "summary", "issue_type">>, TRUE),
    ToolDefinition("jira_update_issue",
        <<Prop("issue_key", "string"), Prop("fields", "string"),
          PropD("additional_fields", "string", EmptyJSONObject),
          Prop("attachments", "string")>>,
        <<"issue_key", "fields">>, TRUE),
    ToolDefinition("jira_delete_issue",
        <<Prop("issue_key", "string")>>, <<"issue_key">>, TRUE),
    ToolDefinition("jira_add_comment",
        <<Prop("issue_key", "string"), Prop("comment", "string")>>,
        <<"issue_key", "comment">>, TRUE),
    ToolDefinition("jira_add_worklog",
        <<Prop("issue_key", "string"), Prop("time_spent", "string"),
          Prop("comment", "string"), Prop("started", "string")>>,
        <<"issue_key", "time_spent">>, TRUE),
    ToolDefinition("jira_link_to_epic",
        <<Prop("issue_key", "string"), Prop("epic_key", "string")>>,
        <<"issue_key", "epic_key">>, TRUE),
    ToolDefinition("jira_transition_issue",
        <<Prop("issue_key", "string"), Prop("transition_id", "string"),
          PropD("fields", "string", EmptyJSONObject),
          Prop("comment", "string")>>,
        <<"issue_key", "transition_id">>, TRUE)
>>

\* a tool definition outside the catalogs, handed to extract_arguments: its
\* defaults are values that processing would change (an integer below the
\* minimum, a numeric string, a truthy string)
SAMPLE_TOOL ==
    ToolDefinition("sample_tool",
        <<Prop("note", "string"),
          PropMinMax("count", "integer", IntV(0), 1, 50),
          PropMax("ceiling", "number", StrV(<<"9", "9">>), 10),
          PropD("flag", "boolean", StrV(<<"y", "e", "s">>))>>,
        <<"note">>, FALSE)

\* the elements of a sequence
Range(seq) == {seq[i] : i \in 1..Len(seq)}

\* the names declared in a tool's input_schema["properties"]
PropNames(tool) == {tool.properties[i].name : i \in 1..Len(tool.properties)}
\* the descriptor of a declared property
PropOf(tool, name) ==
    tool.properties[CHOOSE i \in 1..Len(tool.properties) :
                        tool.properties[i].name = name]

(***************************************************************************)
(* ToolDefinition: argument extraction.  A dict is a function from its     *)
(* keys; raw arguments are [isNone, m]: None, or the mapping m.            *)
(***************************************************************************)
EmptyDict == [k \in {} |-> NoneV]
NoArguments == [isNone |-> TRUE, m |-> EmptyDict]
Arguments(m) == [isNone |-> FALSE, m |-> m]

\* a faulty conversion: int() whatever the declared type
ParseNumericAsInt(value, schema) ==
    IF value.t = "str" /\ PyStrip(value.s) # <<>>
    THEN IF PyIntOfStr(value.s).ok THEN PyIntOfStr(value.s).v ELSE value
    ELSE value

\* a faulty conversion: a string that does not parse becomes None
ParseNumericOrNone(value, schema) ==
    IF value.t = "str"
    THEN IF schema.type = "integer"
         THEN IF PyIntOfStr(value.s).ok THEN PyIntOfStr(value.s).v ELSE NoneV
         ELSE IF PyFloatOfStr(value.s).ok THEN PyFloatOfStr(value.s).v ELSE NoneV
    ELSE value

\* _process_numeric_value, the conversion of a string: int() for an
\* integer property, float() otherwise; a string that does not parse, or is
\* blank, stays as it is
ParseNumeric(value, schema) ==
    IF value.t = "str" /\ PyStrip(value.s) # <<>>
    THEN IF schema.type = "integer"
         THEN IF PyIntOfStr(value.s).ok THEN PyIntOfStr(value.s).v ELSE value
         ELSE IF PyFloatOfStr(value.s).ok THEN PyFloatOfStr(value.s).v ELSE value
    ELSE value

\* _process_numeric_value, "if min_val is not None and value < min_val"
ClampMin(value, schema) ==
    IF IsIntOrFloat(value) /\ schema.hasMin /\ PyLess(value, schema.minimum)
    THEN IntV(schema.minimum)
    ELSE value

\* _process_numeric_value, "if max_val is not None and value > max_val"
ClampMax(value, schema) ==
    IF IsIntOrFloat(value) /\ schema.hasMax /\ PyGreater(value, schema.maximum)
    THEN IntV(schema.maximum)
    ELSE value

\* ToolDefinition._process_numeric_value
_process_numeric_value(value, schema) ==
    ClampMax(ClampMin(ParseNumeric(value, schema), schema), schema)

\* the strings _process_boolean_value takes for true
TruthyStrings ==
    {<<"t", "r", "u", "e">>, <<"y", "e", "s">>, <<"1">>, <<"t">>, <<"y">>}

\* a faulty conversion: the string is compared without lower()
CaseSensitiveBoolean(value) ==
    CASE value.t = "bool" -> value
      [] value.t = "str" -> BoolV(value.s \in TruthyStrings)
      [] OTHER -> BoolV(PyTruthy(value))

\* ToolDefinition._process_boolean_value
_process_boolean_value(value) ==
    CASE value.t = "bool" -> value
      [] value.t = "str" -> BoolV(PyLower(value.s) \in TruthyStrings)
      [] OTHER -> BoolV(PyTruthy(value))

\* the value extract_arguments stores for a supplied argument
ProcessValue(value, prop_schema) ==
    CASE prop_schema.type \in {"integer", "number"} ->
             _process_numeric_value(value, prop_schema)
      [] prop_schema.type = "boolean" -> _process_boolean_value(value)
      [] OTHER -> value

\* a faulty extraction: a parameter without a default is filled with None,
\* and a default goes through the processing of a supplied value
ExtractNullFilled(tool, raw_arguments) ==
    IF raw_arguments.isNone
    THEN [processed_args |-> EmptyDict, raw_arguments |-> raw_arguments]
    ELSE [processed_args |->
              [p \in PropNames(tool) |->
                  IF p \in DOMAIN raw_arguments.m
                  THEN ProcessValue(raw_arguments.m[p], PropOf(tool, p))
                  ELSE ProcessValue(PropOf(tool, p).default, PropOf(tool, p))],
          raw_arguments |-> raw_arguments]

\* a faulty extraction: supplied arguments that are not declared pass through
ExtractPassthrough(tool, raw_arguments) ==
    IF raw_arguments.isNone
    THEN [processed_args |-> EmptyDict, raw_arguments |-> raw_arguments]
    ELSE [processed_args |->
              [p \in DOMAIN raw_arguments.m
                      \cup {q \in PropNames(tool) : PropOf(tool, q).hasDefault} |->
                  IF p \notin DOMAIN raw_arguments.m THEN PropOf(tool, p).default
                  ELSE IF p \in PropNames(tool)
                       THEN ProcessValue(raw_arguments.m[p], PropOf(tool, p))
                       ELSE raw_arguments.m[p]],
          raw_arguments |-> raw_arguments]

\* a faulty extraction: a required parameter left out is filled with None
ExtractRequiredFilled(tool, raw_arguments) ==
    IF raw_arguments.isNone
    THEN [processed_args |-> EmptyDict, raw_arguments |-> raw_arguments]
    ELSE [processed_args |->
              [p \in {q \in PropNames(tool) :
                         \/ q \in DOMAIN raw_arguments.m
                         \/ PropOf(tool, q).hasDefault
                         \/ q \in Range(tool.required)} |->
                  IF p \in DOMAIN raw_arguments.m
                  THEN ProcessValue(raw_arguments.m[p], PropOf(tool, p))
                  ELSE PropOf(tool, p).default],
          raw_arguments |-> raw_arguments]

\* a faulty extraction: None is read as the empty mapping, so the defaults
\* are filled in
ExtractNoneAsEmpty(tool, raw_arguments) ==
    [processed_args |->
         [p \in {q \in PropNames(tool) :
                    \/ ~raw_arguments.isNone /\ q \in DOMAIN raw_arguments.m
                    \/ PropOf(tool, q).hasDefault} |->
             IF ~raw_arguments.isNone /\ p \in DOMAIN raw_arguments.m
             THEN ProcessValue(raw_arguments.m[p], PropOf(tool, p))
             ELSE PropOf(tool, p).default],
     raw_arguments |-> raw_arguments]

\* ToolDefinition.extract_arguments: the processed dict, and the raw
\* arguments as the call leaves them
extract_arguments(tool, raw_arguments) ==
    IF raw_arguments.isNone
    THEN [processed_args |-> EmptyDict, raw_arguments |-> raw_arguments]
    ELSE LET kept == {p \in PropNames(tool) :
                         \/ p \in DOMAIN raw_arguments.m
                         \/ PropOf(tool, p).hasDefault}
         IN  [processed_args |->
                  [p \in kept |->
                      IF p \in DOMAIN raw_arguments.m
                      THEN ProcessValue(raw_arguments.m[p], PropOf(tool, p))
                      ELSE PropOf(tool, p).default],
              raw_arguments |-> raw_arguments]

\* ToolDefinition.to_tool: the protocol descriptor
to_tool(tool) ==
    [name |-> tool.name,
     inputSchema |-> [properties |-> tool.properties, required |-> tool.required]]

(***************************************************************************)
(* Toolbox.                                                                *)
(***************************************************************************)
\* Toolbox.__post_init__: a later definition of a name replaces an earlier one
Toolbox(tool_definitions) ==
    [tool_definitions |-> tool_definitions,
     _tool_cache |->
        [name \in {tool_definitions[i].name : i \in 1..Len(tool_definitions)} |->
            tool_definitions[CHOOSE i \in 1..Len(tool_definitions) :
                /\ tool_definitions[i].name = name
                /\ \A j \in (i + 1)..Len(tool_definitions) :
                       tool_definitions[j].name # name]]]

\* a faulty filter: "and" where get_tools has "or"
ListedOnlyReadsWhenWritable(tool, read_only) ==
    ~tool.is_write_operation /\ ~read_only

\* the filter of Toolbox.get_tools
Listed(tool, read_only) == ~tool.is_write_operation \/ ~read_only

\* Toolbox.get_tools
get_tools(toolbox, read_only) ==
    SelectSeq(toolbox.tool_definitions, LAMBDA tool : Listed(tool, read_only))

\* a faulty lookup: the cache holds the read tools only
GetToolAmongReads(toolbox, name) ==
    IF name \in DOMAIN toolbox._tool_cache /\ ~toolbox._tool_cache[name].is_write_operation
    THEN [found |-> TRUE, tool |-> toolbox._tool_cache[name]]
    ELSE [found |-> FALSE, tool |-> ToolDefinition("", <<>>, <<>>, FALSE)]

\* Toolbox.get_tool: found = FALSE stands for None
get_tool(toolbox, name) ==
    IF name \in DOMAIN toolbox._tool_cache
    THEN [found |-> TRUE, tool |-> toolbox._tool_cache[name]]
    ELSE [found |-> FALSE, tool |-> ToolDefinition("", <<>>, <<>>, FALSE)]

\* Toolbox.get_mcp_tools
get_mcp_tools(toolbox, read_only) ==
    LET tools == get_tools(toolbox, read_only)
    IN  [i \in 1..Len(tools) |-> to_tool(tools[i])]

(***************************************************************************)
(* Python library calls used by call_tool.                                 *)
(***************************************************************************)
\* an exception: its class and str(e)
Exc(type, msg) == [type |-> type, msg |-> msg]
NoExc == Exc("", "")

DictV(pairs) == [t |-> "dict", n |-> 0, s |-> <<>>, l |-> pairs]

\* int(str) as a result: exc is NoExc or the ValueError
IntOfLiteral(r) ==
    IF r.ok THEN [exc |-> NoExc, v |-> r.v]
    ELSE [exc |-> Exc("ValueError", "invalid literal for int() with base 10"),
          v |-> NoneV]

\* int(value): exc is NoExc, or the exception int() raises
PyInt(v) ==
    CASE v.t \in {"bool", "int"} -> [exc |-> NoExc, v |-> IntV(v.n)]
      [] v.t = "float" ->
             [exc |-> NoExc,
              v |-> IntV(IF v.n >= 0 THEN v.n \div 10 ELSE -((-v.n) \div 10))]
      [] v.t = "nan" ->
             [exc |-> Exc("ValueError", "cannot convert float NaN to integer"),
              v |-> NoneV]
      [] v.t = "inf" ->
             [exc |-> Exc("OverflowError", "cannot convert float infinity to integer"),
              v |-> NoneV]
      [] v.t = "str" -> IntOfLiteral(PyIntOfStr(v.s))
      [] OTHER ->
             [exc |-> Exc("TypeError", "int() argument must be a string, a bytes-like object or a real number"),
              v |-> NoneV]

\* min(a, b) of two ints
PyMin(a, b) == IF b < a THEN b ELSE a

\* sub in s, for strings
Contains(s, sub) ==
    \E i \in 1..(Len(s) - Len(sub) + 1) : SubSeq(s, i, i + Len(sub) - 1) = sub

\* the first position at or after i that holds no whitespace
SkipWs(s, i) ==
    IF \A j \in i..Len(s) : IsSpace(s[j]) THEN Len(s) + 1
    ELSE Least({j \in i..Len(s) : ~IsSpace(s[j])})

\* json.loads on a string: values are strings without escapes, integers,
\* true, false, null, arrays and objects.  ok = FALSE is JSONDecodeError.
JFail == [ok |-> FALSE, next |-> 0, v |-> NoneV]
JOk(next, v) == [ok |-> TRUE, next |-> next, v |-> v]
StartsAt(s, i, word) ==
    i + Len(word) - 1 <= Len(s) /\ SubSeq(s, i, i + Len(word) - 1) = word

RECURSIVE JsonValue(_, _), JsonElems(_, _, _), JsonPairs(_, _, _)
JsonValue(s, i0) ==
    LET i == SkipWs(s, i0)
    IN  IF i > Len(s) THEN JFail
        ELSE CASE s[i] = "\"" ->
                 LET closes == {j \in (i + 1)..Len(s) : s[j] = "\""}
                 IN  IF closes = {} THEN JFail
                     ELSE JOk(Least(closes) + 1,
                              StrV(SubSeq(s, i + 1, Least(closes) - 1)))
               [] IsDigit(s[i]) \/ s[i] = "-" ->
                 LET d == IF s[i] = "-" THEN i + 1 ELSE i
                     stops == {j \in d..(Len(s) + 1) : j > Len(s) \/ ~IsDigit(s[j])}
                     e == Least(stops)
                 IN  IF e = d \/ (e - d > 1 /\ s[d] = "0") THEN JFail
                     ELSE JOk(e, IntV((IF s[i] = "-" THEN -1 ELSE 1)
                                        * DigitsVal(SubSeq(s, d, e - 1))))
               [] s[i] = "[" ->
                 IF SkipWs(s, i + 1) <= Len(s) /\ s[SkipWs(s, i + 1)] = "]"
                 THEN JOk(SkipWs(s, i + 1) + 1, ListV(<<>>))
                 ELSE JsonElems(s, i + 1, <<>>)
               [] s[i] = "{" ->
                 IF SkipWs(s, i + 1) <= Len(s) /\ s[SkipWs(s, i + 1)] = "}"
                 THEN JOk(SkipWs(s, i + 1) + 1, DictV(<<>>))
                 ELSE JsonPairs(s, i + 1, <<>>)
               [] StartsAt(s, i, <<"t", "r", "u", "e">>) -> JOk(i + 4, BoolV(TRUE))
               [] StartsAt(s, i, <<"f", "a", "l", "s", "e">>) -> JOk(i + 5, BoolV(FALSE))
               [] StartsAt(s, i, <<"n", "u", "l", "l">>) -> JOk(i + 4, NoneV)
               [] OTHER -> JFail
JsonElems(s, i, acc) ==
    LET r == JsonValue(s, i)
        k == SkipWs(s, r.next)
    IN  IF ~r.ok \/ k > Len(s) THEN JFail
        ELSE IF s[k] = "," THEN JsonElems(s, k + 1, Append(acc, r.v))
        ELSE IF s[k] = "]" THEN JOk(k + 1, ListV(Append(acc, r.v)))
        ELSE JFail
JsonPairs(s, i, acc) ==
    LET key == JsonValue(s, i)
        c == SkipWs(s, key.next)
        val == JsonValue(s, c + 1)
        k == SkipWs(s, val.next)
    IN  IF ~key.ok \/ key.v.t # "str" \/ c > Len(s) THEN JFail
        ELSE IF s[c] # ":" \/ ~val.ok \/ k > Len(s) THEN JFail
        ELSE IF s[k] = ","
             THEN JsonPairs(s, k + 1, Append(acc, [k |-> key.v.s, v |-> val.v]))
        ELSE IF s[k] = "}"
             THEN JOk(k + 1, DictV(Append(acc, [k |-> key.v.s, v |-> val.v])))
        ELSE JFail

\* json.loads on a string: the whole string must be one value
JsonDocument(s, r) ==
    IF r.ok /\ SkipWs(s, r.next) > Len(s)
    THEN [exc |-> NoExc, v |-> r.v]
    ELSE [exc |-> Exc("JSONDecodeError", "Expecting value"), v |-> NoneV]

\* json.loads(value): exc is NoExc, JSONDecodeError, or TypeError for a
\* value that is no string
json_loads(value) ==
    IF value.t # "str"
    THEN [exc |-> Exc("TypeError", "the JSON object must be str, bytes or bytearray"),
          v |-> NoneV]
    ELSE JsonDocument(value.s, JsonValue(value.s, 1))

(***************************************************************************)
(* call_tool: the part of each branch between the read-only check and the  *)
(* collaborator call.  A branch raises, returns early, or invokes one      *)
(* collaborator operation op with keyword arguments kw.                    *)
(***************************************************************************)
Raise(exc) == [tag |-> "raise", exc |-> exc, text |-> <<>>, op |-> "", kw |-> EmptyDict]
Return(text) == [tag |-> "return", exc |-> NoExc, text |-> text, op |-> "", kw |-> EmptyDict]
Invoke(op, kw) == [tag |-> "invoke", exc |-> NoExc, text |-> <<>>, op |-> op, kw |-> kw]

\* arguments.get(key, default) and arguments.get(key)
Get(arguments, key, default) ==
    IF key \in DOMAIN arguments.m THEN arguments.m[key] ELSE default
Get1(arguments, key) == Get(arguments, key, NoneV)

\* a faulty cap: the limit goes through as int() gave it
Uncapped(r) == r

\* min(limit, 50), once int() has given limit
CapLimit(r) ==
    IF r.exc # NoExc THEN r ELSE [exc |-> NoExc, v |-> IntV(PyMin(r.v.n, 50))]

\* min(int(arguments.get("limit", default)), 50)
limit_of(arguments, default) == CapLimit(PyInt(Get(arguments, "limit", IntV(default))))

\* the first exception raised by two statements in a row
FirstExc(first, second) == IF first # NoExc THEN first ELSE second

\* a branch that computes limit, then start_at, then calls op
LimitThenStart(limit, start_at, op, kw) ==
    IF FirstExc(limit.exc, start_at.exc) # NoExc
    THEN Raise(FirstExc(limit.exc, start_at.exc))
    ELSE Invoke(op, [limit |-> limit.v, start |-> start_at.v] @@ kw)

\* a branch that computes start_at, then limit, then calls op
StartThenLimit(start_at, limit, op, kw) ==
    IF FirstExc(start_at.exc, limit.exc) # NoExc
    THEN Raise(FirstExc(start_at.exc, limit.exc))
    ELSE Invoke(op, [limit |-> limit.v, start |-> start_at.v] @@ kw)

\* int(arguments.get("startAt", 0))
start_at_of(arguments) == PyInt(Get(arguments, "startAt", IntV(0)))

\* the markers that make confluence_search take the query for CQL
CQLMarkers ==
    {<<"=">>, <<"~">>, <<">">>, <<"<">>, <<" ", "A", "N", "D", " ">>,
     <<" ", "O", "R", " ">>,
     <<"c", "u", "r", "r", "e", "n", "t", "U", "s", "e", "r", "(", ")">>}

\* any(x in container for x in words): a substring test on a string, a
\* membership test on a list or a dict, TypeError on anything else
PyInAny(words, container) ==
    CASE container.t = "str" ->
             [exc |-> NoExc, b |-> \E x \in words : Contains(container.s, x)]
      [] container.t = "list" ->
             [exc |-> NoExc,
              b |-> \E x \in words : \E i \in 1..Len(container.l) :
                        container.l[i] = StrV(x)]
      [] container.t = "dict" ->
             [exc |-> NoExc,
              b |-> \E x \in words : \E i \in 1..Len(container.l) :
                        container.l[i].k = x]
      [] OTHER ->
             [exc |-> Exc("TypeError", "argument is not iterable"), b |-> FALSE]

\* the text an f-string puts for a value: a string as it is, anything else
\* as one chunk
FormatChars(v) == IF v.t = "str" THEN v.s ELSE <<"{value}">>

\* f'text ~ "{query}"'
TextSearch(chars) == StrV(<<"t", "e", "x", "t", " ", "~", " ", "\"">> \o chars \o <<"\"">>)

\* confluence_search once query, limit and the marker test are evaluated
SearchCall(query, limit, marked, spaces_filter) ==
    IF limit.exc # NoExc THEN Raise(limit.exc)
    ELSE IF PyTruthy(query) /\ marked.exc # NoExc THEN Raise(marked.exc)
    ELSE Invoke("confluence.search",
             [query |-> IF PyTruthy(query) /\ ~marked.b
                        THEN TextSearch(FormatChars(query))
                        ELSE query,
              limit |-> limit.v,
              spaces_filter |-> spaces_filter])

case_confluence_search(arguments) ==
    SearchCall(Get(arguments, "query", EmptyStr), limit_of(arguments, 10),
               PyInAny(CQLMarkers, Get(arguments, "query", EmptyStr)),
               Get1(arguments, "spaces_filter"))

case_confluence_get_page(arguments) ==
    Invoke("confluence.get_page_content",
        [page_id |-> Get1(arguments, "page_id"),
         convert_to_markdown |-> Get(arguments, "convert_to_markdown", BoolV(TRUE))])

BodyStorage == <<"b", "o", "d", "y", ".", "s", "t", "o", "r", "a", "g", "e">>

\* confluence_get_page_children once its arguments are read
ChildrenCall(parent_id, expand, limit, include_content, has_body, kw) ==
    IF limit.exc # NoExc THEN Raise(limit.exc)
    ELSE IF PyTruthy(include_content) /\ has_body.exc # NoExc THEN Raise(has_body.exc)
    ELSE Invoke("confluence.get_page_children",
             [page_id |-> parent_id,
              limit |-> limit.v,
              expand |-> IF PyTruthy(include_content) /\ ~has_body.b
                         THEN IF PyTruthy(expand)
                              THEN StrV(FormatChars(expand) \o <<",">> \o BodyStorage)
                              ELSE StrV(BodyStorage)
                         ELSE expand] @@ kw)

case_confluence_get_page_children(arguments) ==
    ChildrenCall(Get1(arguments, "parent_id"),
                 Get(arguments, "expand", VersionExpand),
                 limit_of(arguments, 25),
                 Get(arguments, "include_content", BoolV(FALSE)),
                 PyInAny({<<"b", "o", "d", "y">>}, Get(arguments, "expand", VersionExpand)),
                 [start |-> Get(arguments, "start", IntV(0)),
                  convert_to_markdown |->
                      Get(arguments, "convert_to_markdown", BoolV(TRUE))])

case_confluence_get_page_ancestors(arguments) ==
    Invoke("confluence.get_page_ancestors", [page_id |-> Get1(arguments, "page_id")])

case_confluence_get_comments(arguments) ==
    Invoke("confluence.get_page_comments", [page_id |-> Get1(arguments, "page_id")])

case_confluence_create_page(arguments) ==
    Invoke("confluence.create_page",
        [space_key |-> Get1(arguments, "space_key"),
         title |-> Get1(arguments, "title"),
         body |-> Get1(arguments, "content"),
         parent_id |-> Get1(arguments, "parent_id"),
         is_markdown |-> BoolV(TRUE)])

case_confluence_update_page(arguments) ==
    IF \/ ~PyTruthy(Get1(arguments, "page_id"))
       \/ ~PyTruthy(Get1(arguments, "title"))
       \/ ~PyTruthy(Get1(arguments, "content"))
    THEN Raise(Exc("ValueError",
             "Missing required parameters: page_id, title, and content are required."))
    ELSE Invoke("confluence.update_page",
             [page_id |-> Get1(arguments, "page_id"),
              title |-> Get1(arguments, "title"),
              body |-> Get1(arguments, "content"),
              is_minor_edit |-> Get(arguments, "is_minor_edit", BoolV(FALSE)),
              version_comment |-> Get(arguments, "version_comment", EmptyStr),
              is_markdown |-> BoolV(TRUE)])

case_confluence_delete_page(arguments) ==
    IF ~PyTruthy(Get1(arguments, "page_id"))
    THEN Raise(Exc("ValueError", "Missing required parameter: page_id is required."))
    ELSE Invoke("confluence.delete_page", [page_id |-> Get1(arguments, "page_id")])

case_confluence_attach_content(arguments) ==
    IF \/ ~PyTruthy(Get1(arguments, "content"))
       \/ ~PyTruthy(Get1(arguments, "name"))
       \/ ~PyTruthy(Get1(arguments, "page_id"))
    THEN Return(<<"Error: Missing required parameters: content, name, and page_id are required.">>)
    ELSE Invoke("confluence.attach_content",
             [content |-> Get1(arguments, "content"),
              name |-> Get1(arguments, "name"),
              page_id |-> Get1(arguments, "page_id")])

case_jira_get_issue(arguments) ==
    Invoke("jira.get_issue",
        [issue_key |-> Get1(arguments, "issue_key"),
         fields |-> Get(arguments, "fields", EssentialFields),
         expand |-> Get1(arguments, "expand"),
         comment_limit |-> Get(arguments, "comment_limit", IntV(10)),
         properties |-> Get1(arguments, "properties"),
         update_history |-> Get(arguments, "update_history", BoolV(TRUE))])

case_jira_search(arguments) ==
    LimitThenStart(limit_of(arguments, 10), start_at_of(arguments),
        "jira.search_issues",
        [jql |-> Get1(arguments, "jql"),
         fields |-> Get(arguments, "fields", EssentialFields),
         projects_filter |-> Get1(arguments, "projects_filter")])

case_jira_get_project_issues(arguments) ==
    LimitThenStart(limit_of(arguments, 10), start_at_of(arguments),
        "jira.get_project_issues",
        [project_key |-> Get1(arguments, "project_key")])

case_jira_get_epic_issues(arguments) ==
    LimitThenStart(limit_of(arguments, 10), start_at_of(arguments),
        "jira.get_epic_issues",
        [epic_key |-> Get1(arguments, "epic_key")])

case_jira_get_transitions(arguments) ==
    Invoke("jira.get_available_transitions", [issue_key |-> Get1(arguments, "issue_key")])

case_jira_get_worklog(arguments) ==
    Invoke("jira.get_worklogs", [issue_key |-> Get1(arguments, "issue_key")])

case_jira_download_attachments(arguments) ==
    IF ~PyTruthy(Get1(arguments, "issue_key"))
    THEN Raise(Exc("ValueError", "Missing required parameter: issue_key"))
    ELSE IF ~PyTruthy(Get1(arguments, "target_dir"))
    THEN Raise(Exc("ValueError", "Missing required parameter: target_dir"))
    ELSE Invoke("jira.download_issue_attachments",
             [issue_key |-> Get1(arguments, "issue_key"),
              target_dir |-> Get1(arguments, "target_dir")])

case_jira_get_agile_boards(arguments) ==
    StartThenLimit(start_at_of(arguments), limit_of(arguments, 10),
        "jira.get_all_agile_boards_model",
        [board_name |-> Get1(arguments, "board_name"),
         project_key |-> Get1(arguments, "project_key"),
         board_type |-> Get1(arguments, "board_type")])

case_jira_get_board_issues(arguments) ==
    StartThenLimit(start_at_of(arguments), limit_of(arguments, 10),
        "jira.get_board_issues",
        [board_id |-> Get1(arguments, "board_id"),
         jql |-> Get1(arguments, "jql"),
         fields |-> Get(arguments, "fields", AllFields),
         expand |-> Get(arguments, "expand", VersionExpand)])

case_jira_get_sprints_from_board(arguments) ==
    StartThenLimit(start_at_of(arguments), limit_of(arguments, 10),
        "jira.get_all_sprints_from_board_model",
        [board_id |-> Get1(arguments, "board_id"),
         state |-> Get(arguments, "state", StrV(<<"a", "c", "t", "i", "v", "e">>))])

case_jira_get_sprint_issues(arguments) ==
    StartThenLimit(start_at_of(arguments), limit_of(arguments, 10),
        "jira.get_sprint_issues",
        [sprint_id |-> Get1(arguments, "sprint_id"),
         fields |-> Get(arguments, "fields", AllFields)])

(***************************************************************************)
(* call_tool: the Jira write branches.                                     *)
(***************************************************************************)
\* str.split(",")
RECURSIVE SplitComma(_)
SplitComma(s) ==
    IF \A i \in 1..Len(s) : s[i] # "," THEN <<s>>
    ELSE LET i == Least({j \in 1..Len(s) : s[j] = ","})
         IN  <<SubSeq(s, 1, i - 1)>> \o SplitComma(SubSeq(s, i + 1, Len(s)))

\* [x.strip() for x in parts]
StripAll(parts) == [i \in 1..Len(parts) |-> StrV(PyStrip(parts[i]))]

\* a JSON-encoded argument: {} when the argument is falsy, else json.loads,
\* where JSONDecodeError becomes InvalidJSONError(field_name=field)
InvalidJSONError(field_name) ==
    Exc("InvalidJSONError", "Invalid JSON in " \o field_name \o ": Invalid JSON format")

\* a faulty reading of a JSON-encoded argument: text that does not parse
\* counts as no fields
JsonFieldLenient(raw, parsed, field_name) ==
    IF ~PyTruthy(raw) \/ parsed.exc.type = "JSONDecodeError"
    THEN [exc |-> NoExc, v |-> DictV(<<>>)]
    ELSE parsed

JsonField(raw, parsed, field_name) ==
    IF ~PyTruthy(raw) THEN [exc |-> NoExc, v |-> DictV(<<>>)]
    ELSE IF parsed.exc.type = "JSONDecodeError"
    THEN [exc |-> InvalidJSONError(field_name), v |-> NoneV]
    ELSE parsed

json_field(arguments, field_name) ==
    JsonField(Get1(arguments, field_name), json_loads(Get1(arguments, field_name)),
              field_name)

\* the keys of a parsed JSON object
KeysOf(d) == {d.l[i].k : i \in 1..Len(d.l)}

\* f(**d, ...) with the keywords named: TypeError when d is no mapping or
\* repeats a keyword
StarStar(d, named) ==
    IF d.t # "dict"
    THEN Exc("TypeError", "argument after ** must be a mapping")
    ELSE IF KeysOf(d) \cap named # {}
    THEN Exc("TypeError", "got multiple values for keyword argument")
    ELSE NoExc

\* keyword names, as the characters a JSON key is compared with
ISSUE_KEY == <<"i", "s", "s", "u", "e", "_", "k", "e", "y">>
ATTACHMENTS == <<"a", "t", "t", "a", "c", "h", "m", "e", "n", "t", "s">>

\* project_key, summary, issue_type, description, assignee, components
CreateIssueKeywords ==
    {<<"p", "r", "o", "j", "e", "c", "t", "_", "k", "e", "y">>,
     <<"s", "u", "m", "m", "a", "r", "y">>,
     <<"i", "s", "s", "u", "e", "_", "t", "y", "p", "e">>,
     <<"d", "e", "s", "c", "r", "i", "p", "t", "i", "o", "n">>,
     <<"a", "s", "s", "i", "g", "n", "e", "e">>,
     <<"c", "o", "m", "p", "o", "n", "e", "n", "t", "s">>}

\* components.split(","), stripped, without the empty entries
SplitComponents(components) ==
    IF PyTruthy(components) /\ components.t = "str"
    THEN ListV(SelectSeq(StripAll(SplitComma(components.s)), LAMBDA c : c.s # <<>>))
    ELSE components

\* jira_create_issue once additional_fields is parsed
CreateIssueCall(arguments, additional_fields) ==
    IF FirstExc(additional_fields.exc,
                StarStar(additional_fields.v, CreateIssueKeywords)) # NoExc
    THEN Raise(FirstExc(additional_fields.exc,
                        StarStar(additional_fields.v, CreateIssueKeywords)))
    ELSE Invoke("jira.create_issue",
             [project_key |-> Get1(arguments, "project_key"),
              summary |-> Get1(arguments, "summary"),
              issue_type |-> Get1(arguments, "issue_type"),
              description |-> Get(arguments, "description", EmptyStr),
              assignee |-> Get1(arguments, "assignee"),
              components |-> SplitComponents(Get1(arguments, "components")),
              additional_fields |-> additional_fields.v])

case_jira_create_issue(arguments) ==
    CreateIssueCall(arguments, json_field(arguments, "additional_fields"))

\* Path(path).exists(): files are the paths that exist; Path("") is "."
PathExists(chars, files) == chars = <<>> \/ chars \in files

\* the attachments list before validation, parsed being json.loads of a
\* string argument
AttachmentsList(raw, parsed) ==
    IF ~PyTruthy(raw) THEN <<>>
    ELSE IF raw.t = "list" THEN raw.l
    ELSE IF raw.t # "str" THEN <<>>
    ELSE IF parsed.exc = NoExc
    THEN IF parsed.v.t = "list" THEN parsed.v.l ELSE <<parsed.v>>
    ELSE IF Contains(raw.s, <<",">>) THEN StripAll(SplitComma(raw.s))
    ELSE <<raw>>

ParseAttachments(raw) == AttachmentsList(raw, json_loads(raw))

\* for path in attachments[:]: drop the paths that do not exist; Path()
\* of anything but a string raises TypeError and ends the loop
RECURSIVE ValidatePaths(_, _, _)
ValidatePaths(todo, kept, files) ==
    IF todo = <<>> THEN [exc |-> NoExc, l |-> kept]
    ELSE IF Head(todo).t # "str"
    THEN [exc |-> Exc("TypeError", "expected str, bytes or os.PathLike object"),
          l |-> kept \o todo]
    ELSE IF PathExists(Head(todo).s, files)
    THEN ValidatePaths(Tail(todo), Append(kept, Head(todo)), files)
    ELSE ValidatePaths(Tail(todo), kept, files)

\* additional_fields["attachments"] = attachments
WithAttachments(additional_fields, attachments) ==
    DictV(SelectSeq(additional_fields.l, LAMBDA p : p.k # ATTACHMENTS)
          \o <<[k |-> ATTACHMENTS, v |-> ListV(attachments)]>>)

\* jira_update_issue once fields, additional_fields and attachments are known
UpdateIssueCall(issue_key, fields, additional_fields, attachments) ==
    IF FirstExc(fields.exc, FirstExc(additional_fields.exc, attachments.exc)) # NoExc
    THEN Raise(FirstExc(fields.exc, FirstExc(additional_fields.exc, attachments.exc)))
    ELSE Invoke("jira.update_issue",
             [issue_key |-> issue_key,
              fields |-> fields.v,
              additional_fields |-> additional_fields.v,
              attachments |-> ListV(attachments.l)])

case_jira_update_issue(arguments, files) ==
    UpdateIssueCall(Get1(arguments, "issue_key"),
        json_field(arguments, "fields"),
        json_field(arguments, "additional_fields"),
        ValidatePaths(ParseAttachments(Get1(arguments, "attachments")), <<>>, files))

\* the statements of the jira_update_issue try block before the
\* collaborator is entered: NoExc, or the exception they raise
update_issue_call(kw) ==
    IF kw.attachments.l # <<>> /\ kw.additional_fields.t # "dict"
    THEN Exc("TypeError", "object does not support item assignment")
    ELSE FirstExc(StarStar(kw.fields, {ISSUE_KEY}),
                  StarStar(IF kw.attachments.l # <<>>
                           THEN WithAttachments(kw.additional_fields, kw.attachments.l)
                           ELSE kw.additional_fields,
                           {ISSUE_KEY} \cup KeysOf(kw.fields)))

case_jira_delete_issue(arguments) ==
    Invoke("jira.delete_issue", [issue_key |-> Get1(arguments, "issue_key")])

case_jira_add_comment(arguments) ==
    Invoke("jira.add_comment",
        [issue_key |-> Get1(arguments, "issue_key"),
         comment |-> Get1(arguments, "comment")])

case_jira_add_worklog(arguments) ==
    Invoke("jira.add_worklog",
        [issue_key |-> Get1(arguments, "issue_key"),
         time_spent |-> Get1(arguments, "time_spent"),
         comment |-> Get1(arguments, "comment"),
         started |-> Get1(arguments, "started")])

case_jira_link_to_epic(arguments) ==
    Invoke("jira.link_issue_to_epic",
        [issue_key |-> Get1(arguments, "issue_key"),
         epic_key |-> Get1(arguments, "epic_key")])

\* jira_transition_issue once its arguments are read
TransitionCall(issue_key, transition_id, fields, comment) ==
    IF ~PyTruthy(issue_key) THEN Raise(Exc("ValueError", "issue_key is required"))
    ELSE IF ~PyTruthy(transition_id)
    THEN Raise(Exc("ValueError", "transition_id is required"))
    ELSE IF fields.exc # NoExc THEN Raise(fields.exc)
    ELSE Invoke("jira.transition_issue",
             [issue_key |-> issue_key,
              transition_id |->
                  IF transition_id.t = "str" /\ PyIsDigit(transition_id.s)
                  THEN IntV(DigitsVal(transition_id.s))
                  ELSE transition_id,
              fields |-> fields.v,
              comment |-> comment])

case_jira_transition_issue(arguments) ==
    TransitionCall(Get1(arguments, "issue_key"), Get1(arguments, "transition_id"),
                   json_field(arguments, "fields"), Get1(arguments, "comment"))

(***************************************************************************)
(* call_tool.  A result is what the protocol gets back: raised tells that  *)
(* an exception left call_tool; otherwise text is the one text block,      *)
(* kind is "success", "read_only" or "error", and shape tells an error     *)
(* made by the outer except clause ("outer") from one a branch made        *)
(* itself ("inline").  calls are the collaborator operations entered.      *)
(* Text taken from argument values or collaborator results is kept as a    *)
(* placeholder in braces.                                                  *)
(***************************************************************************)
Result(kind, shape, exc, text, calls) ==
    [raised |-> FALSE, kind |-> kind, shape |-> shape, exc |-> exc,
     text |-> text, calls |-> calls]

\* an exception that leaves call_tool
Propagated(exc) ==
    [raised |-> TRUE, kind |-> "raised", shape |-> "", exc |-> exc,
     text |-> <<>>, calls |-> <<>>]

\* a faulty response: the read-only refusal reported as an error
ReadOnlyAsError(operation_name) ==
    Result("error", "outer", Exc("ValueError", "read-only mode"),
           <<"Error: Operation '", operation_name, "' is not available in read-only mode.">>,
           <<>>)

\* get_read_only_response
get_read_only_response(operation_name) ==
    Result("read_only", "", NoExc,
           <<"Operation '", operation_name, "' is not available in read-only mode.">>,
           <<>>)

\* a faulty except clause: the message of the exception is left out
OuterExceptWithoutMessage(exc, calls) ==
    Result("error", "outer", exc, <<"Error">>, calls)

\* a faulty except clause: the exception is raised again
OuterExceptReraises(exc, calls) == Propagated(exc)

\* the outer except clause
OuterExcept(exc, calls) ==
    Result("error", "outer", exc, <<"Error: ", exc.msg>>, calls)

\* a faulty match statement: jira_transition_issue has no branch
AreaOfWithoutTransition(tool_name) ==
    CASE tool_name \in {"confluence_search", "confluence_get_page",
                        "confluence_get_page_children",
                        "confluence_get_page_ancestors", "confluence_get_comments",
                        "confluence_create_page", "confluence_update_page",
                        "confluence_delete_page", "confluence_attach_content"} ->
             "confluence"
      [] tool_name \in {"jira_get_issue", "jira_search", "jira_get_project_issues",
                        "jira_get_epic_issues", "jira_get_transitions",
                        "jira_get_worklog", "jira_download_attachments",
                        "jira_get_agile_boards", "jira_get_board_issues",
                        "jira_get_sprints_from_board", "jira_get_sprint_issues",
                        "jira_create_issue", "jira_update_issue",
                        "jira_delete_issue", "jira_add_comment", "jira_add_worklog",
                        "jira_link_to_epic"} ->
             "jira"
      [] OTHER -> ""

\* the handle each branch requires: "confluence", "jira", or "" for a name
\* without a branch
AreaOf(tool_name) ==
    CASE tool_name \in {"confluence_search", "confluence_get_page",
                        "confluence_get_page_children",
                        "confluence_get_page_ancestors", "confluence_get_comments",
                        "confluence_create_page", "confluence_update_page",
                        "confluence_delete_page", "confluence_attach_content"} ->
             "confluence"
      [] tool_name \in {"jira_get_issue", "jira_search", "jira_get_project_issues",
                        "jira_get_epic_issues", "jira_get_transitions",
                        "jira_get_worklog", "jira_download_attachments",
                        "jira_get_agile_boards", "jira_get_board_issues",
                        "jira_get_sprints_from_board", "jira_get_sprint_issues",
                        "jira_create_issue", "jira_update_issue",
                        "jira_delete_issue", "jira_add_comment", "jira_add_worklog",
                        "jira_link_to_epic", "jira_transition_issue"} ->
             "jira"
      [] OTHER -> ""

\* raise ConfluenceNotConfiguredError / JiraNotConfiguredError
NotConfiguredError(area) ==
    IF area = "confluence"
    THEN Exc("ConfluenceNotConfiguredError", "Confluence is not configured.")
    ELSE Exc("JiraNotConfiguredError", "Jira is not configured.")

\* a faulty dispatcher: only the Confluence branches hold the read-only check
ReadOnlyGuardedInConfluence ==
    {"confluence_create_page", "confluence_update_page", "confluence_delete_page",
     "confluence_attach_content"}

\* a faulty dispatcher: jira_download_attachments, which the catalog does
\* not flag as a write, holds the read-only check too
ReadOnlyGuardedWithDownloads ==
    {"confluence_create_page", "confluence_update_page", "confluence_delete_page",
     "confluence_attach_content", "jira_create_issue", "jira_update_issue",
     "jira_delete_issue", "jira_add_comment", "jira_add_worklog",
     "jira_link_to_epic", "jira_transition_issue", "jira_download_attachments"}

\* the branches that hold "if read_only: return get_read_only_response(...)"
ReadOnlyGuarded ==
    {"confluence_create_page", "confluence_update_page", "confluence_delete_page",
     "confluence_attach_content", "jira_create_issue", "jira_update_issue",
     "jira_delete_issue", "jira_add_comment", "jira_add_worklog",
     "jira_link_to_epic", "jira_transition_issue"}

\* the branch of the match statement, from its first arguments.get on
Branch(tool_name, arguments, files) ==
    CASE tool_name = "confluence_search" -> case_confluence_search(arguments)
      [] tool_name = "confluence_get_page" -> case_confluence_get_page(arguments)
      [] tool_name = "confluence_get_page_children" ->
             case_confluence_get_page_children(arguments)
      [] tool_name = "confluence_get_page_ancestors" ->
             case_confluence_get_page_ancestors(arguments)
      [] tool_name = "confluence_get_comments" -> case_confluence_get_comments(arguments)
      [] tool_name = "confluence_create_page" -> case_confluence_create_page(arguments)
      [] tool_name = "confluence_update_page" -> case_confluence_update_page(arguments)
      [] tool_name = "confluence_delete_page" -> case_confluence_delete_page(arguments)
      [] tool_name = "confluence_attach_content" ->
             case_confluence_attach_content(arguments)
      [] tool_name = "jira_get_issue" -> case_jira_get_issue(arguments)
      [] tool_name = "jira_search" -> case_jira_search(arguments)
      [] tool_name = "jira_get_project_issues" -> case_jira_get_project_issues(arguments)
      [] tool_name = "jira_get_epic_issues" -> case_jira_get_epic_issues(arguments)
      [] tool_name = "jira_get_transitions" -> case_jira_get_transitions(arguments)
      [] tool_name = "jira_get_worklog" -> case_jira_get_worklog(arguments)
      [] tool_name = "jira_download_attachments" ->
             case_jira_download_attachments(arguments)
      [] tool_name = "jira_get_agile_boards" -> case_jira_get_agile_boards(arguments)
      [] tool_name = "jira_get_board_issues" -> case_jira_get_board_issues(arguments)
      [] tool_name = "jira_get_sprints_from_board" ->
             case_jira_get_sprints_from_board(arguments)
      [] tool_name = "jira_get_sprint_issues" -> case_jira_get_sprint_issues(arguments)
      [] tool_name = "jira_create_issue" -> case_jira_create_issue(arguments)
      [] tool_name = "jira_update_issue" -> case_jira_update_issue(arguments, files)
      [] tool_name = "jira_delete_issue" -> case_jira_delete_issue(arguments)
      [] tool_name = "jira_add_comment" -> case_jira_add_comment(arguments)
      [] tool_name = "jira_add_worklog" -> case_jira_add_worklog(arguments)
      [] tool_name = "jira_link_to_epic" -> case_jira_link_to_epic(arguments)
      [] tool_name = "jira_transition_issue" -> case_jira_transition_issue(arguments)

\* the exceptions of the collaborator that the branch itself catches
CaughtInline(tool_name) ==
    CASE tool_name \in {"confluence_get_page_children", "confluence_delete_page",
                        "jira_update_issue", "jira_transition_issue"} ->
             {"ApiError", "RequestException", "Exception"}
      [] tool_name = "confluence_attach_content" -> {"ApiError", "RequestException"}
      [] OTHER -> {}

\* the text of an error a branch reports itself
InlineErrorText(tool_name, outcome) ==
    CASE tool_name = "confluence_get_page_children" ->
             <<"{\"error\": \"Failed to get child pages: ", "{e}", "\"}">>
      [] tool_name = "confluence_delete_page" ->
             <<"{\"success\": false, \"message\": \"Error deleting page ", "{page_id}",
               "\", \"error\": \"", "{e}", "\"}">>
      [] tool_name = "confluence_attach_content" /\ outcome = "ApiError" ->
             <<"Confluence API Error when trying to attach content ", "{name}",
               " to page ", "{page_id}", ": ", "{e}">>
      [] tool_name = "confluence_attach_content" /\ outcome # "ApiError" ->
             <<"Network error when trying to attach content ", "{name}",
               " to page ", "{page_id}", ": ", "{e}">>
      [] tool_name = "jira_update_issue" ->
             <<"Error updating issue ", "{issue_key}", ": ", "{e}">>
      [] tool_name = "jira_transition_issue" ->
             <<"Error transitioning issue ", "{issue_key}", " with transition ID ",
               "{transition_id}", ": ", "{e}">>

\* the text of a successful result
SuccessText(tool_name) ==
    CASE tool_name = "confluence_create_page" ->
             <<"Page created successfully:\n", "{json}">>
      [] tool_name = "jira_create_issue" -> <<"Issue created successfully:\n", "{json}">>
      [] tool_name = "jira_update_issue" -> <<"Issue updated successfully:\n", "{json}">>
      [] OTHER -> <<"{json}">>

\* the collaborator call of a branch and what the branch makes of its
\* outcome: "ok", "falsy" (a falsy return value), or the exception raised;
\* before is the exception raised in the branch's try block before the call
Entered(tool_name, calls, outcome, before) ==
    IF before # NoExc
    THEN Result("error", "inline", before, InlineErrorText(tool_name, "Exception"), <<>>)
    ELSE IF outcome = "ok" \/ (outcome = "falsy" /\ tool_name # "confluence_delete_page")
    THEN Result("success", "", NoExc, SuccessText(tool_name), calls)
    ELSE IF outcome = "falsy"
    THEN Result("error", "inline", NoExc,
                <<"{\"success\": false, \"message\": \"Unable to delete page ",
                  "{page_id}", "...\"}">>, calls)
    ELSE IF outcome \in CaughtInline(tool_name)
    THEN Result("error", "inline", Exc(outcome, "{collaborator message}"),
                InlineErrorText(tool_name, outcome), calls)
    ELSE OuterExcept(Exc(outcome, "{collaborator message}"), calls)

\* a faulty branch: a collaborator call that raised is made a second time
CollaborateWithRetry(tool_name, branch, outcome) ==
    Entered(tool_name,
            IF outcome \in {"ok", "falsy"}
            THEN <<[op |-> branch.op, kw |-> branch.kw]>>
            ELSE <<[op |-> branch.op, kw |-> branch.kw],
                   [op |-> branch.op, kw |-> branch.kw]>>,
            outcome,
            IF tool_name = "jira_update_issue"
            THEN update_issue_call(branch.kw) ELSE NoExc)

Collaborate(tool_name, branch, outcome) ==
    Entered(tool_name, <<[op |-> branch.op, kw |-> branch.kw]>>, outcome,
            IF tool_name = "jira_update_issue"
            THEN update_issue_call(branch.kw) ELSE NoExc)

\* what call_tool makes of a branch
AfterBranch(tool_name, branch, outcome) ==
    CASE branch.tag = "raise" -> OuterExcept(branch.exc, <<>>)
      [] branch.tag = "return" -> Result("error", "inline", NoExc, branch.text, <<>>)
      [] branch.tag = "invoke" -> Collaborate(tool_name, branch, outcome)

\* a faulty dispatcher: the arguments are read before the handle is checked
ArgumentsReadFirst(tool_name, arguments, read_only, ctx_, files, outcome) ==
    IF AreaOf(tool_name) = ""
    THEN OuterExcept(Exc("ValueError", "Unknown tool: " \o tool_name), <<>>)
    ELSE IF arguments.isNone
    THEN OuterExcept(Exc("AttributeError", "'NoneType' object has no attribute 'get'"),
                     <<>>)
    ELSE IF ~ctx_[AreaOf(tool_name)]
    THEN OuterExcept(NotConfiguredError(AreaOf(tool_name)), <<>>)
    ELSE IF tool_name \in ReadOnlyGuarded /\ read_only
    THEN get_read_only_response(tool_name)
    ELSE AfterBranch(tool_name, Branch(tool_name, arguments, files), outcome)

\* a faulty dispatcher: a write branch validates its arguments before it
\* looks at the mode
ArgumentsValidatedFirst(tool_name, arguments, read_only, ctx_, files, outcome) ==
    IF AreaOf(tool_name) = ""
    THEN OuterExcept(Exc("ValueError", "Unknown tool: " \o tool_name), <<>>)
    ELSE IF ~ctx_[AreaOf(tool_name)]
    THEN OuterExcept(NotConfiguredError(AreaOf(tool_name)), <<>>)
    ELSE IF arguments.isNone
    THEN OuterExcept(Exc("AttributeError", "'NoneType' object has no attribute 'get'"),
                     <<>>)
    ELSE IF tool_name \in ReadOnlyGuarded /\ read_only
            /\ Branch(tool_name, arguments, files).tag # "raise"
    THEN get_read_only_response(tool_name)
    ELSE AfterBranch(tool_name, Branch(tool_name, arguments, files), outcome)

\* the try block of call_tool for a resolved tool
TryBlock(tool_name, arguments, read_only, ctx_, files, outcome) ==
    IF AreaOf(tool_name) = ""
    THEN OuterExcept(Exc("ValueError", "Unknown tool: " \o tool_name), <<>>)
    ELSE IF ~ctx_[AreaOf(tool_name)]
    THEN OuterExcept(NotConfiguredError(AreaOf(tool_name)), <<>>)
    ELSE IF tool_name \in ReadOnlyGuarded /\ read_only
    THEN get_read_only_response(tool_name)
    ELSE IF arguments.isNone
    THEN OuterExcept(Exc("AttributeError", "'NoneType' object has no attribute 'get'"),
                     <<>>)
    ELSE AfterBranch(tool_name, Branch(tool_name, arguments, files), outcome)

\* call_tool: the lookup in the Jira toolbox, then the Confluence one
call_tool(name, arguments, read_only, ctx_, jira_toolbox, confluence_toolbox, files, outcome) ==
    LET tool == IF get_tool(jira_toolbox, name).found
                THEN get_tool(jira_toolbox, name)
                ELSE get_tool(confluence_toolbox, name)
    IN  IF ~tool.found
        THEN Propagated(Exc("ValueError", "Unknown tool: " \o name))
        ELSE TryBlock(tool.tool.name, arguments, read_only, ctx_, files, outcome)

\* list_tools
list_tools(read_only, ctx_, jira_toolbox, confluence_toolbox) ==
    (IF ctx_.confluence THEN get_mcp_tools(confluence_toolbox, read_only) ELSE <<>>)
    \o (IF ctx_.jira THEN get_mcp_tools(jira_toolbox, read_only) ELSE <<>>)

(***************************************************************************)
(* The values supplied as arguments.                                       *)
(***************************************************************************)
NumberSamples ==
    {IntV(i) : i \in (-MaxNeg..MaxInt) \cup {500, 999}}
    \cup {FloatV(-5), FloatV(5), FloatV(255), FloatV(300), FloatV(505), FloatV(9990)}
    \cup {NanV, InfV(1), InfV(-1), BoolV(TRUE), BoolV(FALSE), NoneV}
    \cup {StrV(s) : s \in {<<"3", "0">>,
     <<" ", "3", "0", " ">>,
     <<"3", "0", ".", "0">>,
     <<"2", ".", "5">>,
     <<"-", "7">>,
     <<"9", "9", "9">>,
     <<"0">>,
     <<"a", "b", "c">>,
     <<>>,
     <<" ">>,
     <<"n", "a", "n">>,
     <<"-", "i", "n", "f">>,
     <<"+", "5", "1">>}}

BooleanSamples ==
    {BoolV(TRUE), BoolV(FALSE), IntV(0), IntV(1), IntV(2), FloatV(0), FloatV(5),
     NanV, NoneV, ListV(<<>>), ListV(<<EmptyStr>>)}
    \cup {StrV(s) : s \in {<<"Y", "E", "S">>,
     <<"0">>,
     <<"1">>,
     <<"t", "r", "u", "e">>,
     <<"T", "r", "u", "e">>,
     <<"t">>,
     <<"Y">>,
     <<"y", "e", "s", " ">>,
     <<" ", "y">>,
     <<"n", "o">>,
     <<"f", "a", "l", "s", "e">>,
     <<>>,
     <<"o", "n">>}}

GoodString == StrV(<<"P", "-", "1">>)
GoodJSON == StrV(<<"{", "\"", "a", "\"", ":", " ", "1", "}">>)

StringSamples == {GoodString, EmptyStr, NoneV, IntV(7)}

JSONSamples ==
    {GoodJSON, EmptyJSONObject, EmptyStr, NoneV, IntV(7),
     StrV(<<"{", "n", "o", "t", " ", "j", "s", "o", "n">>),
     StrV(<<"[", "1", "]">>),
     StrV(<<"\"", "x", "\"">>),
     StrV(<<"{", "\"", "i", "s", "s", "u", "e", "_", "k", "e", "y", "\"", ":", " ", "\"", "Q", "\"", "}">>),
     StrV(<<"{", "\"", "s", "u", "m", "m", "a", "r", "y", "\"", ":", " ", "\"", "s", "\"", ",", " ", "\"", "a", "\"", ":", " ", "2", "}">>),
     StrV(<<" ", "{", "}", " ">>),
     StrV(<<"{", "\"", "a", "\"", ":", " ", "1", ",", "}">>)}

PathA == <<"/", "a">>
PathB == <<"/", "b">>

AttachmentSamples ==
    {EmptyStr, NoneV, IntV(7), StrV(PathA), StrV(PathB),
     ListV(<<StrV(PathB), StrV(PathA), StrV(PathB)>>), ListV(<<IntV(7)>>),
     StrV(<<"/", "a", ",", "/", "b">>),
     StrV(<<"/", "b", ",", " ", "/", "a">>),
     StrV(<<"/", "b", ",">>),
     StrV(<<"[", "\"", "/", "b", "\"", ",", "\"", "/", "a", "\"", "]">>),
     StrV(<<"\"", "/", "a", "\"">>),
     StrV(<<"[", "]">>),
     StrV(<<"[", "1", "]">>),
     StrV(<<"{", "}">>),
     StrV(<<"7">>)}

\* the sets of existing paths tried with jira_update_issue
FileSystems == {{}, {PathA}}

QuerySamples ==
    StringSamples \cup {StrV(<<"a", "=", "b">>), StrV(<<"x", " ", "A", "N", "D", " ", "y">>), StrV(<<"1", "1">>), StrV(<<"0">>), StrV(<<"A", ",", " ", "B", ",", ",">>), StrV(<<"b", "o", "d", "y">>)}

\* the values tried for an argument of a tool
Samples(tool, key) ==
    CASE key \in {"limit", "startAt", "comment_limit", "start", "count", "ceiling"} ->
             NumberSamples
      [] key \in {"include_metadata", "convert_to_markdown", "include_content",
                  "update_history", "is_minor_edit", "flag"} -> BooleanSamples
      [] key = "additional_fields" -> JSONSamples
      [] key = "fields" /\ tool.is_write_operation -> JSONSamples
      [] key = "attachments" -> AttachmentSamples
      [] key \in {"query", "expand", "components", "transition_id"} -> QuerySamples
      [] OTHER -> StringSamples

\* names that a caller may add although the schema does not declare them
ExtraKeys(tool) ==
    IF tool.name = "confluence_get_page_children"
    THEN {"undeclared", "start", "convert_to_markdown"}
    ELSE {"undeclared"}

\* the required arguments of a tool, well-formed
BaseArguments(tool) ==
    [k \in Range(tool.required) |->
        IF k = "fields" /\ tool.is_write_operation THEN GoodJSON ELSE GoodString]

\* a mapping with one more, or one changed, entry
With(m, key, value) ==
    [k \in DOMAIN m \cup {key} |-> IF k = key THEN value ELSE m[k]]
\* a mapping without one entry
Without(m, key) == [k \in DOMAIN m \ {key} |-> m[k]]

\* the raw arguments tried with a tool: None; the required arguments; the
\* required arguments with one argument added, changed or left out
RawArguments(tool) ==
    {NoArguments, Arguments(BaseArguments(tool))}
    \cup UNION {{Arguments(With(BaseArguments(tool), k, v)) : v \in Samples(tool, k)} :
                   k \in PropNames(tool) \cup ExtraKeys(tool)}
    \cup {Arguments(Without(BaseArguments(tool), k)) : k \in Range(tool.required)}

(***************************************************************************)
(* State.  The two toolboxes are the module-level singletons; ctx is the   *)
(* lifespan context (which handles are set); read_only_mode is what        *)
(* is_read_only_mode() answers and environment what the configuration the  *)
(* mode comes from says now.  request is the operation being handled and   *)
(* response what it gave back; tasks are the requests in flight together.  *)
(***************************************************************************)
VARIABLES JIRA_TOOLBOX, CONFLUENCE_TOOLBOX, ctx, read_only_mode, environment, request, response, tasks

vars == <<JIRA_TOOLBOX, CONFLUENCE_TOOLBOX, ctx, read_only_mode, environment, request, response, tasks>>

\* the tools of the two catalogs
AllTools == Range(JIRA_TOOLS) \cup Range(CONFLUENCE_TOOLS)
ToolNames == {tool.name : tool \in AllTools}
\* the tool definitions extract_arguments is tried on
ExtractTools == AllTools \cup {SAMPLE_TOOL}
ToolNamed(name) == CHOOSE tool \in ExtractTools : tool.name = name


\* the collaborator outcomes tried with a tool
Outcomes(name) ==
    {"ok", "Exception"}
    \cup (IF name = "confluence_delete_page" THEN {"falsy"} ELSE {})
    \cup (IF name = "confluence_attach_content"
          THEN {"ApiError", "RequestException"} ELSE {})

NoResult == Result("", "", NoExc, <<>>, <<>>)

Request(op, name, arguments, read_only, files, toolbox) ==
    [op |-> op, name |-> name, arguments |-> arguments, read_only |-> read_only,
     files |-> files, toolbox |-> toolbox]

Response(op, read_only, outcome, tools, processed_args, result) ==
    [op |-> op, read_only |-> read_only, outcome |-> outcome, tools |-> tools,
     processed_args |-> processed_args, result |-> result]

NoRequest == Request("none", "", NoArguments, FALSE, {}, "")
NoResponse == Response("none", FALSE, "", <<>>, EmptyDict, NoResult)

\* a request in flight: pc is its position in the handler, read_only, tool,
\* tools and result are the handler's local variables
Task(pc, op, name, arguments, outcome, read_only, tool, tools, result) ==
    [pc |-> pc, op |-> op, name |-> name, arguments |-> arguments,
     outcome |-> outcome, read_only |-> read_only, tool |-> tool, tools |-> tools,
     result |-> result]

NoTask ==
    Task("idle", "none", "", NoArguments, "", FALSE, get_tool(Toolbox(<<>>), ""), <<>>,
         NoResult)

\* is_read_only_mode(): the process-wide value, resolved once from the
\* environment before the first request
is_read_only_mode == read_only_mode

Init ==
    /\ JIRA_TOOLBOX = Toolbox(JIRA_TOOLS)
    /\ CONFLUENCE_TOOLBOX = Toolbox(CONFLUENCE_TOOLS)
    /\ ctx \in [confluence : BOOLEAN, jira : BOOLEAN]
    /\ environment \in BOOLEAN
    /\ read_only_mode = environment
    /\ request = NoRequest
    /\ response = NoResponse
    /\ tasks = [i \in 1..MaxTasks |-> NoTask]

\* no request is being handled
Idle == request.op = "none"

\* the toolboxes get_tools is tried on: the two singletons, an empty one,
\* one that declares its write tools first, and one that declares a tool twice
ToolboxOf(name) ==
    CASE name = "jira" -> JIRA_TOOLBOX
      [] name = "confluence" -> CONFLUENCE_TOOLBOX
      [] name = "empty" -> Toolbox(<<>>)
      [] name = "writes_first" ->
             Toolbox([i \in 1..Len(CONFLUENCE_TOOLS) |->
                         CONFLUENCE_TOOLS[Len(CONFLUENCE_TOOLS) + 1 - i]])
      [] name = "repeated" ->
             Toolbox(<<JIRA_TOOLS[1], JIRA_TOOLS[Len(JIRA_TOOLS)], JIRA_TOOLS[1]>>)

\* a caller asks one toolbox for its tools
SubmitGetTools ==
    /\ Idle
    /\ \E name \in {"jira", "confluence", "empty", "writes_first", "repeated"},
          read_only \in BOOLEAN :
           request' = Request("get_tools", name, NoArguments, read_only, {}, name)
    /\ response' = NoResponse
    /\ UNCHANGED <<JIRA_TOOLBOX, CONFLUENCE_TOOLBOX, ctx, read_only_mode, environment, tasks>>

\* a caller looks a name up in one toolbox; read_only is the mode the
\* process is in meanwhile
SubmitGetTool ==
    /\ Idle
    /\ \E toolbox \in {"jira", "confluence", "empty", "writes_first", "repeated"},
          name \in ToolNames \cup {"no_such_tool", ""},
          read_only \in BOOLEAN :
           request' = Request("get_tool", name, NoArguments, read_only, {}, toolbox)
    /\ response' = NoResponse
    /\ UNCHANGED <<JIRA_TOOLBOX, CONFLUENCE_TOOLBOX, ctx, read_only_mode, environment, tasks>>

\* a client asks for the catalog
SubmitListTools ==
    /\ Idle
    /\ request' = Request("list_tools", "", NoArguments, FALSE, {}, "")
    /\ response' = NoResponse
    /\ UNCHANGED <<JIRA_TOOLBOX, CONFLUENCE_TOOLBOX, ctx, read_only_mode, environment, tasks>>

\* a caller hands raw arguments to a tool definition
SubmitExtractArguments ==
    /\ Idle
    /\ \E tool \in ExtractTools : \E raw \in RawArguments(tool) :
           request' = Request("extract_arguments", tool.name, raw, FALSE, {}, "")
    /\ response' = NoResponse
    /\ UNCHANGED <<JIRA_TOOLBOX, CONFLUENCE_TOOLBOX, ctx, read_only_mode, environment, tasks>>

\* a client calls a tool by name; "no_such_tool" is in neither toolbox
SubmitCallTool ==
    /\ Idle
    /\ \/ \E tool \in AllTools : \E raw \in RawArguments(tool) :
             \E files \in (IF tool.name = "jira_update_issue" /\ ~raw.isNone
                              /\ "attachments" \in DOMAIN raw.m
                           THEN FileSystems ELSE {{}}) :
                request' = Request("call_tool", tool.name, raw, FALSE, files, "")
       \/ \E raw \in {NoArguments, Arguments(EmptyDict)} :
             request' = Request("call_tool", "no_such_tool", raw, FALSE, {}, "")
    /\ response' = NoResponse
    /\ UNCHANGED <<JIRA_TOOLBOX, CONFLUENCE_TOOLBOX, ctx, read_only_mode, environment, tasks>>

\* Toolbox.get_tools
GetTools ==
    /\ request.op = "get_tools" /\ response.op = "none"
    /\ response' = Response("get_tools", request.read_only, "",
                            get_tools(ToolboxOf(request.name), request.read_only),
                            EmptyDict, NoResult)
    /\ UNCHANGED <<JIRA_TOOLBOX, CONFLUENCE_TOOLBOX, ctx, read_only_mode, environment, tasks,
                 request>>

\* Toolbox.get_tool: tools is the tool found, or empty for None
GetTool ==
    /\ request.op = "get_tool" /\ response.op = "none"
    /\ response' = Response("get_tool", request.read_only, "",
                            IF get_tool(ToolboxOf(request.toolbox), request.name).found
                            THEN <<get_tool(ToolboxOf(request.toolbox), request.name).tool>>
                            ELSE <<>>,
                            EmptyDict, NoResult)
    /\ UNCHANGED <<JIRA_TOOLBOX, CONFLUENCE_TOOLBOX, ctx, read_only_mode, environment, tasks,
                 request>>

\* list_tools
ListTools ==
    /\ request.op = "list_tools" /\ response.op = "none"
    /\ response' = Response("list_tools", is_read_only_mode, "",
                            list_tools(is_read_only_mode, ctx, JIRA_TOOLBOX,
                                       CONFLUENCE_TOOLBOX),
                            EmptyDict, NoResult)
    /\ UNCHANGED <<JIRA_TOOLBOX, CONFLUENCE_TOOLBOX, ctx, read_only_mode, environment, tasks,
                 request>>

\* ToolDefinition.extract_arguments
ExtractArguments ==
    /\ request.op = "extract_arguments" /\ response.op = "none"
    /\ LET r == extract_arguments(ToolNamed(request.name), request.arguments)
       IN  /\ response' = Response("extract_arguments", FALSE, "", <<>>,
                                   r.processed_args, NoResult)
           /\ request' = [request EXCEPT !.arguments = r.raw_arguments]
    /\ UNCHANGED <<JIRA_TOOLBOX, CONFLUENCE_TOOLBOX, ctx, read_only_mode, environment, tasks>>

\* a faulty call_tool: the mode is read from the environment at each call
CallToolReadingEnvironment ==
    /\ request.op = "call_tool" /\ response.op = "none"
    /\ \E outcome \in Outcomes(request.name) :
           response' = Response("call_tool", environment, outcome, <<>>, EmptyDict,
                                call_tool(request.name, request.arguments,
                                          environment, ctx, JIRA_TOOLBOX,
                                          CONFLUENCE_TOOLBOX, request.files, outcome))
    /\ UNCHANGED <<JIRA_TOOLBOX, CONFLUENCE_TOOLBOX, ctx, read_only_mode, environment, tasks,
                 request>>

\* call_tool, with what the collaborator does if it is called
CallTool ==
    /\ request.op = "call_tool" /\ response.op = "none"
    /\ \E outcome \in Outcomes(request.name) :
           response' = Response("call_tool", is_read_only_mode, outcome, <<>>, EmptyDict,
                                call_tool(request.name, request.arguments,
                                          is_read_only_mode, ctx, JIRA_TOOLBOX,
                                          CONFLUENCE_TOOLBOX, request.files, outcome))
    /\ UNCHANGED <<JIRA_TOOLBOX, CONFLUENCE_TOOLBOX, ctx, read_only_mode, environment, tasks,
                 request>>

\* the response goes back to the caller and the request is over
Deliver ==
    /\ response.op # "none"
    /\ request' = NoRequest
    /\ response' = NoResponse
    /\ UNCHANGED <<JIRA_TOOLBOX, CONFLUENCE_TOOLBOX, ctx, read_only_mode, environment, tasks>>

\* the configuration the mode was resolved from changes while the process
\* runs
ChangeEnvironment ==
    /\ environment' = ~environment
    /\ UNCHANGED <<JIRA_TOOLBOX, CONFLUENCE_TOOLBOX, ctx, read_only_mode, request, response,
                 tasks>>

Next ==
    \/ ChangeEnvironment
    \/ SubmitGetTools
    \/ SubmitGetTool
    \/ SubmitListTools
    \/ SubmitExtractArguments
    \/ SubmitCallTool
    \/ GetTools
    \/ GetTool
    \/ ListTools
    \/ ExtractArguments
    \/ CallTool
    \/ Deliver

Spec == Init /\ [][Next]_vars

(***************************************************************************)
(* Requests in flight together.  Each handler is a coroutine of the one    *)
(* server process; its statements are taken one at a time so that every    *)
(* interleaving of the handlers, on one thread or on several, is covered.  *)
(***************************************************************************)
\* the requests issued together: list_tools, and call_tool for a write
\* tool, a tool that catches its collaborator's failure, and an unknown name
TaskInputs ==
    {Task("start", "list_tools", "", NoArguments, "", FALSE, NoTask.tool, <<>>, NoResult)}
    \cup {Task("start", "call_tool", "jira_create_issue",
                Arguments(BaseArguments(ToolNamed("jira_create_issue"))), outcome,
                FALSE, NoTask.tool, <<>>, NoResult) : outcome \in {"ok", "Exception"}}
    \cup {Task("start", "call_tool", "confluence_delete_page",
                Arguments(BaseArguments(ToolNamed("confluence_delete_page"))), "falsy",
                FALSE, NoTask.tool, <<>>, NoResult),
          Task("start", "call_tool", "no_such_tool", Arguments(EmptyDict), "ok",
                FALSE, NoTask.tool, <<>>, NoResult)}

\* every variable but tasks
shared == <<JIRA_TOOLBOX, CONFLUENCE_TOOLBOX, ctx, read_only_mode, environment, request, response>>

\* a client issues a request while others are in flight
TaskStart(i) ==
    /\ tasks[i].pc = "idle"
    /\ \E task \in TaskInputs : tasks' = [tasks EXCEPT ![i] = task]
    /\ UNCHANGED shared

\* read_only = is_read_only_mode()
TaskReadMode(i) ==
    /\ tasks[i].pc = "start"
    /\ tasks' = [tasks EXCEPT ![i].pc = "mode", ![i].read_only = is_read_only_mode]
    /\ UNCHANGED shared

\* a faulty list_tools: the filter is applied to the toolbox itself
TaskListConfluenceInPlace(i) ==
    /\ tasks[i].pc = "mode" /\ tasks[i].op = "list_tools"
    /\ CONFLUENCE_TOOLBOX' =
           Toolbox(get_tools(CONFLUENCE_TOOLBOX, tasks[i].read_only))
    /\ tasks' = [tasks EXCEPT
           ![i].pc = "confluence",
           ![i].tools = IF ctx.confluence
                        THEN get_mcp_tools(CONFLUENCE_TOOLBOX, tasks[i].read_only)
                        ELSE <<>>]
    /\ UNCHANGED <<JIRA_TOOLBOX, ctx, read_only_mode, environment, request, response>>

\* list_tools: the Confluence tools
TaskListConfluence(i) ==
    /\ tasks[i].pc = "mode" /\ tasks[i].op = "list_tools"
    /\ tasks' = [tasks EXCEPT
           ![i].pc = "confluence",
           ![i].tools = IF ctx.confluence
                        THEN get_mcp_tools(CONFLUENCE_TOOLBOX, tasks[i].read_only)
                        ELSE <<>>]
    /\ UNCHANGED shared

\* list_tools: the Jira tools, and the return
TaskListJira(i) ==
    /\ tasks[i].pc = "confluence"
    /\ tasks' = [tasks EXCEPT
           ![i].pc = "done",
           ![i].tools = tasks[i].tools \o
                        (IF ctx.jira
                         THEN get_mcp_tools(JIRA_TOOLBOX, tasks[i].read_only)
                         ELSE <<>>)]
    /\ UNCHANGED shared

\* call_tool: the lookup in the two toolboxes; an unknown name raises
TaskLookup(i) ==
    /\ tasks[i].pc = "mode" /\ tasks[i].op = "call_tool"
    /\ LET tool == IF get_tool(JIRA_TOOLBOX, tasks[i].name).found
                   THEN get_tool(JIRA_TOOLBOX, tasks[i].name)
                   ELSE get_tool(CONFLUENCE_TOOLBOX, tasks[i].name)
       IN  tasks' = [tasks EXCEPT
               ![i].tool = tool,
               ![i].pc = IF tool.found THEN "found" ELSE "done",
               ![i].result = IF tool.found THEN NoResult
                             ELSE Propagated(Exc("ValueError",
                                                 "Unknown tool: " \o tasks[i].name))]
    /\ UNCHANGED shared

\* call_tool: the try block, and the return
TaskDispatch(i) ==
    /\ tasks[i].pc = "found"
    /\ tasks' = [tasks EXCEPT
           ![i].pc = "done",
           ![i].result = TryBlock(tasks[i].tool.tool.name, tasks[i].arguments,
                                  tasks[i].read_only, ctx, {}, tasks[i].outcome)]
    /\ UNCHANGED shared

\* the result goes back to the client
TaskReturn(i) ==
    /\ tasks[i].pc = "done"
    /\ tasks' = [tasks EXCEPT ![i] = NoTask]
    /\ UNCHANGED shared

NextConcurrent ==
    \E i \in 1..MaxTasks :
        \/ TaskStart(i)
        \/ TaskReadMode(i)
        \/ TaskListConfluence(i)
        \/ TaskListJira(i)
        \/ TaskLookup(i)
        \/ TaskDispatch(i)
        \/ TaskReturn(i)

SpecConcurrent == Init /\ [][NextConcurrent]_vars

(***************************************************************************)
(* Properties.                                                             *)
(***************************************************************************)
\* extract_arguments has answered a raw arguments mapping (not None)
Extracted == response.op = "extract_arguments" /\ ~request.arguments.isNone
\* call_tool has answered
Called == response.op = "call_tool"
\* the tool of the request, and the arguments supplied with it
RequestTool == ToolNamed(request.name)
Supplied == DOMAIN request.arguments.m

\* the condition C1 gives for a tool to be returned
Kept(tool, read_only) == ~read_only \/ ~tool.is_write_operation
\* the k-th smallest element of a set of indices
NthOf(S, k) == CHOOSE i \in S : Cardinality({j \in S : j <= i}) = k

\* C1: for every toolbox and both values of read_only, get_tools returns
\* exactly the tools t of tool_definitions with
\* (not read_only or not t.is_write_operation), in declaration order:
\* get_tools(True) holds no write tool and every read tool, get_tools(False)
\* is the full declared list.
C1_GetToolsFiltersInOrder ==
    response.op = "get_tools" =>
        LET defs == ToolboxOf(request.name).tool_definitions
            out == response.tools
            idx == {i \in 1..Len(defs) : Kept(defs[i], request.read_only)}
        IN  /\ Len(out) = Cardinality(idx)
            /\ \A k \in 1..Len(out) : out[k] = defs[NthOf(idx, k)]
            /\ request.read_only =>
                   /\ \A k \in 1..Len(out) : ~out[k].is_write_operation
                   /\ \A i \in 1..Len(defs) :
                          ~defs[i].is_write_operation => defs[i] \in Range(out)
            /\ ~request.read_only => out = defs

\* get_tools(True) has left out some tools of a toolbox and kept others
C1_Witness ==
    /\ response.op = "get_tools"
    /\ request.read_only
    /\ Len(response.tools) > 0
    /\ Len(response.tools) < Len(ToolboxOf(request.name).tool_definitions)

\* a write-flagged tool of the catalogs was called while read-only mode is on
WriteCallInReadOnly ==
    /\ Called
    /\ response.read_only
    /\ request.name \in ToolNames
    /\ RequestTool.is_write_operation

\* C2: while read-only mode is on, a call_tool of a write-flagged tool, with
\* any arguments and any configuration of the two services, enters no
\* collaborator operation.
C2_NoCollaboratorInReadOnly ==
    WriteCallInReadOnly => response.result.calls = <<>>

\* a write tool was called in read-only mode with its service configured and
\* well-formed arguments, and was refused
C2_Witness ==
    /\ WriteCallInReadOnly
    /\ ctx[AreaOf(request.name)]
    /\ request.arguments = Arguments(BaseArguments(RequestTool))
    /\ response.result.kind = "read_only"
    /\ response.result.calls = <<>>

\* the result is the one fixed text block, a normal result
IsReadOnlyText(result, name) ==
    /\ ~result.raised
    /\ result.kind = "read_only"
    /\ result.text = <<"Operation '", name, "' is not available in read-only mode.">>

\* C3 as stated: while read-only mode is on, every call_tool of a
\* write-flagged tool returns the fixed text "Operation '<name>' is not
\* available in read-only mode.", whatever the arguments and whichever
\* services are configured.
C3_ReadOnlyTextWhateverConfigured ==
    WriteCallInReadOnly => IsReadOnlyText(response.result, request.name)

\* C3 amended: while read-only mode is on, every call_tool of a write-flagged
\* tool whose service is configured returns the fixed text, whatever the
\* arguments; when the service is not configured the call returns the
\* not-configured error instead.
C3_ReadOnlyTextWhenConfigured ==
    WriteCallInReadOnly =>
        IF ctx[AreaOf(request.name)]
        THEN IsReadOnlyText(response.result, request.name)
        ELSE /\ ~response.result.raised
             /\ response.result.kind = "error"
             /\ response.result.exc = NotConfiguredError(AreaOf(request.name))

\* a write tool was called in read-only mode without arguments (None), its
\* service configured, and the fixed text came back
C3_Witness ==
    /\ WriteCallInReadOnly
    /\ ctx[AreaOf(request.name)]
    /\ request.arguments.isNone
    /\ IsReadOnlyText(response.result, request.name)

\* the limits call_tool passed to the collaborator
PassedLimits ==
    {response.result.calls[i].kw.limit :
        i \in {j \in 1..Len(response.result.calls) :
                  "limit" \in DOMAIN response.result.calls[j].kw}}

\* C4: for every tool with a limit parameter and every supplied limit (too
\* large, too small, or left out), whenever call_tool invokes the
\* collaborator the limit it passes lies in [1, 50].
C4_PassedLimitWithinBounds ==
    Called => \A limit \in PassedLimits :
                  limit.t = "int" /\ 1 <= limit.n /\ limit.n <= 50

\* a limit was supplied with the call
LimitSupplied == Called /\ ~request.arguments.isNone /\ "limit" \in Supplied
\* the supplied limit is a number greater than 50
Above50(v) ==
    \/ v.t \in {"int", "float"} /\ Tenths(v) > 500
    \/ v.t = "inf" /\ v.n > 0

\* C5: for every tool with a limit parameter, a call_tool with a limit
\* greater than 50 invokes the collaborator with limit exactly 50: every
\* limit passed is 50, and with a finite limit, the other arguments
\* well-formed and the service configured, the collaborator is invoked.
C5_LimitAbove50Passes50 ==
    LimitSupplied /\ Above50(request.arguments.m["limit"]) =>
        /\ \A limit \in PassedLimits : limit = IntV(50)
        /\ request.arguments.m["limit"].t # "inf" /\ ctx[AreaOf(request.name)] =>
               PassedLimits # {}

\* limit = 500 was supplied and the collaborator was invoked with limit 50
C5_Witness ==
    /\ LimitSupplied
    /\ request.arguments.m["limit"] = IntV(500)
    /\ PassedLimits = {IntV(50)}

\* the parameters declared integer or number with a minimum or a maximum
BoundedProps(tool) ==
    {p \in PropNames(tool) :
        /\ PropOf(tool, p).type \in {"integer", "number"}
        /\ PropOf(tool, p).hasMin \/ PropOf(tool, p).hasMax}

\* the number a supplied value is: itself, or for a string what the parser
\* of the declared type reads (ok = FALSE: no number)
NumberOf(v, type) ==
    IF v.t = "str"
    THEN IF type = "integer" THEN PyIntOfStr(v.s) ELSE PyFloatOfStr(v.s)
    ELSE [ok |-> IsIntOrFloat(v), v |-> v]

\* minimum <= v and v <= maximum, as Python compares
AtLeast(v, bound) ==
    CASE v.t = "nan" -> FALSE
      [] v.t = "inf" -> v.n > 0
      [] OTHER -> Tenths(v) >= 10 * bound
AtMost(v, bound) ==
    CASE v.t = "nan" -> FALSE
      [] v.t = "inf" -> v.n < 0
      [] OTHER -> Tenths(v) <= 10 * bound
WithinBounds(v, d) ==
    /\ IsIntOrFloat(v)
    /\ d.hasMin => AtLeast(v, d.minimum)
    /\ d.hasMax => AtMost(v, d.maximum)

\* what C6 asks of the result r for the supplied number x under descriptor d
Clamped(x, r, d) ==
    /\ WithinBounds(r, d)
    /\ d.hasMin /\ ~AtLeast(x, d.minimum) /\ x.t # "nan" => r = IntV(d.minimum)
    /\ d.hasMax /\ ~AtMost(x, d.maximum) /\ x.t # "nan" => r = IntV(d.maximum)
    /\ WithinBounds(x, d) => r = x

\* C6: for every parameter declared integer or number with a minimum and/or
\* a maximum, extract_arguments of a supplied numeric value (or of a string
\* that parses as a number) yields a value within the declared bounds: a
\* value below the minimum becomes the minimum, a value above the maximum
\* becomes the maximum, a value within the bounds is returned unchanged.
C6_NumericWithinBounds ==
    Extracted =>
        \A p \in BoundedProps(RequestTool) \cap Supplied :
            NumberOf(request.arguments.m[p], PropOf(RequestTool, p).type).ok =>
                Clamped(NumberOf(request.arguments.m[p], PropOf(RequestTool, p).type).v,
                        response.processed_args[p], PropOf(RequestTool, p))

\* the parameters declared with minimum 1 and maximum 50
LimitProps(tool) ==
    {p \in BoundedProps(tool) :
        /\ PropOf(tool, p).hasMin /\ PropOf(tool, p).minimum = 1
        /\ PropOf(tool, p).hasMax /\ PropOf(tool, p).maximum = 50}

Thirty == StrV(<<"3", "0">>)
C7Integers == {-5, 0, 1, 25, 50, 999}

\* each v of {-5, 0, 1, 25, 50, 999} yields an integer in [1, 50]
C7IntegersClamped(p) ==
    \A v \in C7Integers :
        request.arguments.m[p] = IntV(v) =>
            /\ response.processed_args[p].t = "int"
            /\ 1 <= response.processed_args[p].n
            /\ response.processed_args[p].n <= 50
            /\ (1 <= v /\ v <= 50) => response.processed_args[p].n = v

\* C7 as stated: for every parameter of the catalogs declared with minimum 1
\* and maximum 50, extract_arguments of the string "30" yields the integer
\* 30 (an integer value, not a floating-point one), and each v in
\* {-5, 0, 1, 25, 50, 999} yields a value in [1, 50].
C7_ThirtyIsInteger ==
    Extracted /\ request.name \in ToolNames =>
        \A p \in LimitProps(RequestTool) \cap Supplied :
            /\ request.arguments.m[p] = Thirty => response.processed_args[p] = IntV(30)
            /\ C7IntegersClamped(p)

\* C7 amended: for every parameter of the catalogs declared with minimum 1
\* and maximum 50 (all of them declared "number"), extract_arguments of the
\* string "30" yields the floating-point value 30.0, and each v in
\* {-5, 0, 1, 25, 50, 999} yields an integer in [1, 50].
C7_ThirtyIsFloat ==
    Extracted /\ request.name \in ToolNames =>
        \A p \in LimitProps(RequestTool) \cap Supplied :
            /\ PropOf(RequestTool, p).type = "number"
            /\ request.arguments.m[p] = Thirty =>
                   response.processed_args[p] = FloatV(300)
            /\ C7IntegersClamped(p)

\* "30" was supplied for a limit of the catalogs and 30.0 came back
C7_Witness ==
    /\ Extracted
    /\ request.name \in ToolNames
    /\ "limit" \in Supplied
    /\ request.arguments.m["limit"] = Thirty
    /\ response.processed_args["limit"] = FloatV(300)

\* the parameters declared boolean
BooleanProps(tool) == {p \in PropNames(tool) : PropOf(tool, p).type = "boolean"}

\* two characters that are the same letter, whatever the case
SameLetter(a, b) ==
    a = b \/ \E i \in 1..26 : {a, b} = {UpperChars[i], LowerChars[i]}
\* the string is one of "true", "yes", "1", "t", "y", whatever the case
ReadsAsTrue(s) ==
    \E w \in {<<"t", "r", "u", "e">>, <<"y", "e", "s">>, <<"1">>, <<"t">>, <<"y">>} :
        Len(w) = Len(s) /\ \A i \in 1..Len(s) : SameLetter(s[i], w[i])
\* the empty or zero value of a type
EmptyOrZero(v) == v \in {NoneV, IntV(0), FloatV(0), ListV(<<>>)}

\* C8: for every parameter declared boolean, extract_arguments returns a
\* supplied boolean unchanged; for a supplied string, true exactly when its
\* lower-cased form is one of "true", "yes", "1", "t", "y"; for any other
\* value, false only for the type's empty or zero value.  "YES", "0" and
\* false yield true, false and false.
C8_BooleanCoercion ==
    Extracted =>
        \A p \in BooleanProps(RequestTool) \cap Supplied :
            LET v == request.arguments.m[p]
                r == response.processed_args[p]
            IN  /\ v.t = "bool" => r = v
                /\ v.t = "str" => r = BoolV(ReadsAsTrue(v.s))
                /\ v.t \notin {"bool", "str"} => r = BoolV(~EmptyOrZero(v))
                /\ v = StrV(<<"Y", "E", "S">>) => r = BoolV(TRUE)
                /\ v = StrV(<<"0">>) => r = BoolV(FALSE)
                /\ v = BoolV(FALSE) => r = BoolV(FALSE)

\* "YES" was supplied for a boolean parameter and true came back
C8_Witness ==
    /\ Extracted
    /\ \E p \in BooleanProps(RequestTool) \cap Supplied :
           /\ request.arguments.m[p] = StrV(<<"Y", "E", "S">>)
           /\ response.processed_args[p] = BoolV(TRUE)

\* C9: for every declared parameter p absent from the raw arguments mapping:
\* if p declares a default, the result maps p to exactly that default (not
\* parsed, not clamped); if p declares no default, p is no key of the result.
C9_AbsentParameters ==
    Extracted =>
        \A p \in PropNames(RequestTool) \ Supplied :
            IF PropOf(RequestTool, p).hasDefault
            THEN /\ p \in DOMAIN response.processed_args
                 /\ response.processed_args[p] = PropOf(RequestTool, p).default
            ELSE p \notin DOMAIN response.processed_args

\* a default that processing would have changed came back as declared, and
\* a parameter without a default was left out
C9_Witness ==
    /\ Extracted
    /\ \E p \in BoundedProps(RequestTool) \ Supplied :
           /\ ~WithinBounds(PropOf(RequestTool, p).default, PropOf(RequestTool, p))
           /\ response.processed_args[p] = PropOf(RequestTool, p).default
    /\ \E p \in PropNames(RequestTool) \ Supplied :
           ~PropOf(RequestTool, p).hasDefault /\ p \notin DOMAIN response.processed_args

\* the step in which extract_arguments answers
ExtractStep ==
    request.op = "extract_arguments" /\ response.op = "none"
    /\ response'.op = "extract_arguments"

\* C10: for every tool and every raw arguments mapping, the keys of the
\* extract_arguments result are among the parameter names the tool declares
\* (a supplied argument that is not declared never appears in the result),
\* and extract_arguments leaves the raw arguments and the schema unchanged.
C10_OnlyDeclaredKeys ==
    /\ [](Extracted => DOMAIN response.processed_args \subseteq PropNames(RequestTool))
    /\ [][ExtractStep =>
              /\ request'.arguments = request.arguments
              /\ request'.name = request.name
              /\ JIRA_TOOLBOX' = JIRA_TOOLBOX
              /\ CONFLUENCE_TOOLBOX' = CONFLUENCE_TOOLBOX]_vars

\* an argument that is not declared was supplied and is not in the result
C10_Witness ==
    /\ Extracted
    /\ Supplied \ PropNames(RequestTool) # {}
    /\ DOMAIN response.processed_args \cap (Supplied \ PropNames(RequestTool)) = {}
    /\ DOMAIN response.processed_args # {}

\* the parameters declared integer or number
NumericProps(tool) ==
    {p \in PropNames(tool) : PropOf(tool, p).type \in {"integer", "number"}}

\* C11: for a parameter declared integer or number, extract_arguments given
\* a string that does not parse as a number (an empty or whitespace-only
\* string included) does not raise: it answers, and the result holds the
\* string exactly as supplied, not clamped.
C11_UnparsedStringKept ==
    Extracted =>
        \A p \in NumericProps(RequestTool) \cap Supplied :
            /\ request.arguments.m[p].t = "str"
            /\ ~NumberOf(request.arguments.m[p], PropOf(RequestTool, p).type).ok
            => /\ p \in DOMAIN response.processed_args
               /\ response.processed_args[p] = request.arguments.m[p]

\* "abc" came back as supplied for one bounded parameter, a whitespace-only
\* string for another
C11_Witness ==
    /\ Extracted
    /\ \E p \in BoundedProps(RequestTool) \cap Supplied :
           /\ request.arguments.m[p] \in {StrV(<<"a", "b", "c">>), StrV(<<" ">>)}
           /\ response.processed_args[p] = request.arguments.m[p]

\* C12: every call_tool(name, arguments), for every name (known or unknown
\* to both registries), every arguments value and every collaborator
\* outcome, returns a well-formed result (a sequence of text blocks); no
\* exception propagates out of call_tool.
C12_NoExceptionPropagates ==
    Called => ~response.result.raised /\ response.result.text # <<>>

\* an exception was raised while call_tool handled a tool of the registries
Faulted ==
    /\ Called
    /\ request.name \in ToolNames
    /\ response.result.exc # NoExc

CatalogArea(name) ==
    IF \E i \in 1..Len(JIRA_TOOLS) : JIRA_TOOLS[i].name = name
    THEN "jira" ELSE "confluence"
\* call_tool has answered for a catalog tool whose handle is absent
Unconfigured == Called /\ request.name \in ToolNames /\ ~ctx[CatalogArea(request.name)]
\* the not-configured message of a product area
NotConfiguredText(area) ==
    IF area = "jira" THEN "Jira is not configured." ELSE "Confluence is not configured."

\* C14: when the handle of a tool's product area is absent, call_tool
\* answers with the not-configured error of that area, the same for every
\* arguments value (None, incomplete, malformed) and in both modes, and no
\* collaborator operation is invoked:
C14_NotConfiguredBeforeArguments ==
    Unconfigured =>
        /\ ~response.result.raised
        /\ response.result.kind = "error"
        /\ response.result.text =
               <<"Error: ", NotConfiguredText(CatalogArea(request.name))>>
        /\ response.result.calls = <<>>
\* witness: the not-configured answer to a call whose arguments are None
C14_Witness ==
    /\ Unconfigured
    /\ request.arguments.isNone
    /\ response.result.text = <<"Error: ", "Jira is not configured.">>

\* the JSON-encoded arguments of the three Jira write tools
JSONFieldsOf(name) ==
    CASE name = "jira_create_issue" -> {"additional_fields"}
      [] name = "jira_update_issue" -> {"fields", "additional_fields"}
      [] name = "jira_transition_issue" -> {"fields"}
      [] OTHER -> {}
\* call_tool has answered, writable and with Jira configured, a call whose
\* argument f is a string that json.loads rejects
InvalidJSONSupplied(f) ==
    /\ Called /\ ~response.read_only /\ ctx.jira /\ ~request.arguments.isNone
    /\ f \in JSONFieldsOf(request.name) \cap Supplied
    /\ request.arguments.m[f].t = "str"
    /\ json_loads(request.arguments.m[f]).exc # NoExc
\* the error result that names the field, with no collaborator call
NamesField(f) ==
    /\ ~response.result.raised
    /\ response.result.kind = "error"
    /\ response.result.exc.type = "InvalidJSONError"
    /\ response.result.text =
           <<"Error: ", "Invalid JSON in " \o f \o ": Invalid JSON format">>
    /\ response.result.calls = <<>>

\* C15 as stated: for jira_create_issue, jira_update_issue and
\* jira_transition_issue, every string that is not valid JSON in fields or
\* additional_fields gives the error that names the field and no
\* collaborator call:
C15_InvalidJSONNamesField ==
    \A f \in {"fields", "additional_fields"} : InvalidJSONSupplied(f) => NamesField(f)
\* C15 amended: every non-empty string that is not valid JSON in fields or
\* additional_fields gives the error that names the field and no
\* collaborator call; the empty string counts as an argument left out:
C15_NonEmptyInvalidJSONNamesField ==
    \A f \in {"fields", "additional_fields"} :
        InvalidJSONSupplied(f) =>
            IF request.arguments.m[f].s # <<>>
            THEN NamesField(f)
            ELSE response.result.exc.type # "InvalidJSONError"
\* witness: jira_update_issue answers fields "{not json" with the error
\* that names fields
C15_Witness ==
    /\ InvalidJSONSupplied("fields")
    /\ request.name = "jira_update_issue"
    /\ request.arguments.m["fields"].s = <<"{", "n", "o", "t", " ", "j", "s", "o", "n">>
    /\ NamesField("fields")

\* the paths an attachments argument supplies, by its form: a list, a JSON
\* array string, a comma-separated string, a single path string
SuppliedPaths(v) ==
    IF v.t = "list" THEN v.l
    ELSE IF v.s = <<>> THEN <<>>
    ELSE IF Head(v.s) = "[" THEN json_loads(v).v.l
    ELSE IF Contains(v.s, <<",">>) THEN StripAll(SplitComma(v.s))
    ELSE <<v>>
\* an attachments argument in one of the four forms, every path a string
IsPathsArgument(v) ==
    \/ v.t = "list" /\ \A i \in 1..Len(v.l) : v.l[i].t = "str"
    \/ /\ v.t = "str" /\ v.s # <<>> /\ Head(v.s) = "["
       /\ json_loads(v).exc = NoExc /\ json_loads(v).v.t = "list"
       /\ \A i \in 1..Len(json_loads(v).v.l) : json_loads(v).v.l[i].t = "str"
    \/ v.t = "str" /\ (v.s = <<>> \/ Head(v.s) \notin {"[", "\""})
\* jira_update_issue has answered, writable and with Jira configured, a
\* call that supplies attachments in one of the four forms
AttachmentsSupplied ==
    /\ Called /\ request.name = "jira_update_issue"
    /\ ~response.read_only /\ ctx.jira /\ ~request.arguments.isNone
    /\ "attachments" \in Supplied
    /\ IsPathsArgument(request.arguments.m["attachments"])
\* the supplied paths that exist, in their order
ExistingPaths ==
    SelectSeq(SuppliedPaths(request.arguments.m["attachments"]),
              LAMBDA path : PathExists(path.s, request.files))

\* C16: for every attachments argument of jira_update_issue the update
\* goes on, the collaborator is handed exactly the supplied paths that
\* exist, in their order (none when none exists), and a missing path
\* neither fails the call nor adds an error to the result:
C16_ExistingAttachmentsPassed ==
    AttachmentsSupplied =>
        /\ ~response.result.raised
        /\ Len(response.result.calls) = 1
        /\ response.result.calls[1].op = "jira.update_issue"
        /\ response.result.calls[1].kw.attachments = ListV(ExistingPaths)
        /\ (response.outcome = "ok" => response.result.kind = "success")

\* the collaborator was entered and raised
CollaboratorRaised ==
    Called /\ response.result.calls # <<>> /\ response.outcome \notin {"ok", "falsy"}

\* C17: a call_tool execution enters at most one collaborator operation,
\* once; when that operation raises, nothing further is called and the
\* result is a failure:
C17_AtMostOneCollaboratorCall ==
    Called =>
        /\ Len(response.result.calls) <= 1
        /\ CollaboratorRaised =>
               ~response.result.raised /\ response.result.kind = "error"
\* witness: a call_tool whose one collaborator call raised and that ended
\* in an error the branch reported itself
C17_Witness ==
    /\ CollaboratorRaised
    /\ request.name = "jira_transition_issue"
    /\ Len(response.result.calls) = 1
    /\ response.result.kind = "error" /\ response.result.shape = "inline"

\* the toolboxes as they are constructed
ConstructedJira == Toolbox(JIRA_TOOLS)
ConstructedConfluence == Toolbox(CONFLUENCE_TOOLS)
\* the result request i would get if it ran alone
AloneTools == list_tools(read_only_mode, ctx, ConstructedJira, ConstructedConfluence)
AloneResult(i) ==
    call_tool(tasks[i].name, tasks[i].arguments, read_only_mode, ctx,
              ConstructedJira, ConstructedConfluence, {}, tasks[i].outcome)

\* C18: whatever the interleaving of the list_tools and call_tool requests
\* in flight, the two toolboxes keep their constructed value and every
\* finished request has the result it would have if it ran alone:
C18_ConcurrentRequestsIndependent ==
    /\ JIRA_TOOLBOX = ConstructedJira
    /\ CONFLUENCE_TOOLBOX = ConstructedConfluence
    /\ \A i \in 1..MaxTasks :
           tasks[i].pc = "done" =>
               /\ tasks[i].op = "list_tools" => tasks[i].tools = AloneTools
               /\ tasks[i].op = "call_tool" => tasks[i].result = AloneResult(i)
\* witness: a list_tools and a call_tool that overlapped have both finished
C18_Witness ==
    /\ tasks[1].pc = "done" /\ tasks[1].op = "list_tools"
    /\ tasks[1].tools # <<>>
    /\ tasks[2].pc = "done" /\ tasks[2].op = "call_tool"
    /\ tasks[2].result.calls # <<>>

\* list_tools or call_tool has answered
Observed == response.op \in {"list_tools", "call_tool"}

RequiredOmitted ==
    /\ Called /\ request.name \in ToolNames /\ ~request.arguments.isNone
    /\ ctx[CatalogArea(request.name)]
    /\ ~(RequestTool.is_write_operation /\ response.read_only)
    /\ Range(RequestTool.required) \ Supplied # {}

\* C20: a call that leaves out a required parameter of its tool is
\* answered with an error result and the collaborator is not invoked:
C20_MissingRequiredIsError ==
    RequiredOmitted =>
        /\ ~response.result.raised
        /\ response.result.kind = "error"
        /\ response.result.calls = <<>>

\* get_tool has answered
LookedUp == response.op = "get_tool"
\* the tools a toolbox declares under the name asked for
Declared == {tool \in Range(ToolboxOf(request.toolbox).tool_definitions) : tool.name = request.name}

\* C21: for every toolbox and every name, get_tool returns a tool the
\* toolbox declares under that name when there is one and None otherwise,
\* whether the tool is write-flagged or not and whatever the mode:
C21_GetToolByName ==
    LookedUp =>
        IF Declared = {} THEN response.tools = <<>>
        ELSE Len(response.tools) = 1 /\ response.tools[1] \in Declared
\* witness: in read-only mode the lookup of a write-flagged tool returned it
C21_Witness ==
    /\ LookedUp /\ request.read_only
    /\ request.name = "jira_create_issue" /\ request.toolbox = "jira"
    /\ Len(response.tools) = 1
    /\ response.tools[1].is_write_operation
    /\ response.tools[1].name = "jira_create_issue"

\* C22: in both catalogs every required name is a declared property
\* without a default, and extract_arguments leaves a required parameter
\* that the caller left out absent from its result:
C22_RequiredNeverDefaulted ==
    /\ \A tool \in AllTools : \A k \in Range(tool.required) :
           k \in PropNames(tool) /\ ~PropOf(tool, k).hasDefault
    /\ Extracted /\ RequestTool \in AllTools =>
           \A k \in Range(RequestTool.required) \ Supplied :
               k \notin DOMAIN response.processed_args
\* witness: jira_get_issue without issue_key came back with its defaults
\* and without issue_key
C22_Witness ==
    /\ Extracted /\ request.name = "jira_get_issue"
    /\ "issue_key" \in Range(RequestTool.required) \ Supplied
    /\ "issue_key" \notin DOMAIN response.processed_args
    /\ "comment_limit" \in DOMAIN response.processed_args

\* the arguments of the call are None, leave out a required parameter, or
\* hold a string that json.loads rejects in fields or additional_fields
ArgumentsFaulty ==
    \/ request.arguments.isNone
    \/ Range(RequestTool.required) \ Supplied # {}
    \/ \E f \in JSONFieldsOf(request.name) \cap Supplied :
           /\ request.arguments.m[f].t = "str"
           /\ json_loads(request.arguments.m[f]).exc # NoExc

\* C23: in read-only mode, with the area configured, a write-flagged tool
\* called with missing or malformed arguments gets the read-only result,
\* not an argument or JSON error, and no collaborator is called:
C23_ReadOnlyBeforeArguments ==
    WriteCallInReadOnly /\ ctx[CatalogArea(request.name)] /\ ArgumentsFaulty =>
        /\ ~response.result.raised
        /\ response.result.kind = "read_only"
        /\ response.result.exc = NoExc
        /\ response.result.calls = <<>>
\* witness: jira_update_issue with fields "{not json" was refused as
\* read-only
C23_Witness ==
    /\ WriteCallInReadOnly /\ ctx.jira /\ ~request.arguments.isNone
    /\ request.name = "jira_update_issue"
    /\ "fields" \in Supplied
    /\ request.arguments.m["fields"].s = <<"{", "n", "o", "t", " ", "j", "s", "o", "n">>
    /\ response.result.kind = "read_only"

\* call_tool has answered in read-only mode for a catalog tool whose area
\* is configured
ReadOnlyCall ==
    /\ Called /\ response.read_only /\ request.name \in ToolNames
    /\ ctx[CatalogArea(request.name)]
\* the names list_tools advertises in read-only mode
AdvertisedReadOnly ==
    {tool.name : tool \in Range(list_tools(TRUE, ctx, JIRA_TOOLBOX, CONFLUENCE_TOOLBOX))}

\* C24: in read-only mode, with the area configured, call_tool gives the
\* read-only response exactly for the write-flagged tools, which are
\* exactly the tools list_tools leaves out in that mode:
C24_BlockedIffWriteFlagged ==
    ReadOnlyCall =>
        /\ response.result.kind = "read_only" <=> RequestTool.is_write_operation
        /\ response.result.kind = "read_only" <=> request.name \notin AdvertisedReadOnly
\* witness: jira_download_attachments, advertised in read-only mode, was
\* called in that mode and reached the collaborator
C24_Witness ==
    /\ ReadOnlyCall /\ request.name = "jira_download_attachments"
    /\ request.name \in AdvertisedReadOnly
    /\ response.result.kind = "success"
    /\ response.result.calls # <<>>

\* the arguments of the call without the names its tool does not declare
DeclaredArguments ==
    Arguments([k \in Supplied \cap PropNames(RequestTool) |-> request.arguments.m[k]])

\* C25: a call and the same call without its undeclared arguments enter
\* the collaborator with the same parameters and give the same result:
C25_UndeclaredArgumentsIgnored ==
    Called /\ request.name \in ToolNames /\ ~request.arguments.isNone =>
        response.result =
            call_tool(request.name, DeclaredArguments, response.read_only, ctx,
                      JIRA_TOOLBOX, CONFLUENCE_TOOLBOX, request.files, response.outcome)

\* the tools whose startAt parameter declares minimum 0
StartAtTools == {"jira_search", "jira_get_project_issues", "jira_get_epic_issues"}
\* a number within [lo, hi], in the units of the schema
NumberWithin(v, lo, hi) ==
    v.t \in {"int", "float"} /\ lo * 10 <= Tenths(v) /\ Tenths(v) <= hi * 10

\* C26: whenever call_tool invokes the collaborator, the comment_limit
\* jira_get_issue passes lies in [0, 100] and the startAt jira_search,
\* jira_get_project_issues and jira_get_epic_issues pass is at least 0,
\* for every supplied value:
C26_PassedNumbersWithinBounds ==
    Called =>
        \A i \in 1..Len(response.result.calls) :
            /\ request.name = "jira_get_issue" =>
                   NumberWithin(response.result.calls[i].kw.comment_limit, 0, 100)
            /\ request.name \in StartAtTools =>
                   /\ response.result.calls[i].kw.start.t \in {"int", "float"}
                   /\ Tenths(response.result.calls[i].kw.start) >= 0

UniqueNames(tools) ==
    \A i, j \in 1..Len(tools) : tools[i].name = tools[j].name => i = j

\* C28: tool names are unique within each catalog and across the two, each
\* toolbox cache has one entry per declared tool, a name is found in at
\* most one toolbox, and a call of a declared name runs its own branch and
\* never the "Unknown tool" default case:
C28_UniqueNamesOwnBranch ==
    /\ UniqueNames(JIRA_TOOLS) /\ UniqueNames(CONFLUENCE_TOOLS)
    /\ Cardinality(DOMAIN JIRA_TOOLBOX._tool_cache) = Len(JIRA_TOOLS)
    /\ Cardinality(DOMAIN CONFLUENCE_TOOLBOX._tool_cache) = Len(CONFLUENCE_TOOLS)
    /\ DOMAIN JIRA_TOOLBOX._tool_cache \cap DOMAIN CONFLUENCE_TOOLBOX._tool_cache = {}
    /\ \A name \in ToolNames :
           /\ get_tool(JIRA_TOOLBOX, name).found # get_tool(CONFLUENCE_TOOLBOX, name).found
           /\ AreaOf(name) = CatalogArea(name)
    /\ Called /\ request.name \in ToolNames =>
           /\ ~response.result.raised
           /\ response.result.exc.msg # "Unknown tool: " \o request.name
\* witness: jira_transition_issue, the last branch before the default
\* case, was called and reached its collaborator operation
C28_Witness ==
    /\ Called /\ request.name = "jira_transition_issue"
    /\ Len(response.result.calls) = 1
    /\ response.result.calls[1].op = "jira.transition_issue"

\* the declared parameters with a schema default that the call leaves out
OmittedDefaults ==
    {p \in PropNames(RequestTool) \ Supplied : PropOf(RequestTool, p).hasDefault}
\* the arguments of the call with the schema default of p supplied
WithDefault(p) ==
    Arguments(With(request.arguments.m, p, PropOf(RequestTool, p).default))

\* C29: a call that leaves out a parameter with a schema default and the
\* same call with that default supplied enter the collaborator with the
\* same parameters:
C29_OmittedEqualsDefault ==
    Called /\ request.name \in ToolNames /\ ~request.arguments.isNone =>
        \A p \in OmittedDefaults :
            response.result.calls =
                call_tool(request.name, WithDefault(p), response.read_only, ctx,
                          JIRA_TOOLBOX, CONFLUENCE_TOOLBOX, request.files,
                          response.outcome).calls

\* extract_arguments has answered a call without raw arguments (None)
ExtractedNone == response.op = "extract_arguments" /\ request.arguments.isNone

\* C30: extract_arguments of None gives what extract_arguments of the empty
\* mapping gives: every declared parameter that has a default, with that
\* default:
C30_NoneAsEmptyMapping ==
    ExtractedNone =>
        /\ response.processed_args =
               extract_arguments(RequestTool, Arguments(EmptyDict)).processed_args
        /\ \A p \in PropNames(RequestTool) :
               PropOf(RequestTool, p).hasDefault =>
                   /\ p \in DOMAIN response.processed_args
                   /\ response.processed_args[p] = PropOf(RequestTool, p).default
\* the declared parameters of the tool that have a default
DefaultedProps == {p \in PropNames(RequestTool) : PropOf(RequestTool, p).hasDefault}

\* C30 amended: extract_arguments of None gives the empty dict, without
\* any default, while extract_arguments of the empty mapping gives exactly
\* the declared parameters that have a default, each with its default:
C30_NoneGivesEmptyDict ==
    /\ ExtractedNone => response.processed_args = EmptyDict
    /\ Extracted /\ Supplied = {} =>
           /\ DOMAIN response.processed_args = DefaultedProps
           /\ \A p \in DefaultedProps :
                  response.processed_args[p] = PropOf(RequestTool, p).default
\* witness: a tool that declares defaults was given None and answered
\* with the empty dict
C30_Witness ==
    /\ ExtractedNone
    /\ request.name = "jira_get_issue"
    /\ DefaultedProps # {}
    /\ response.processed_args = EmptyDict

=============================================================================
